---- MODULE Spec2Model ----
(***************************************************************************)
(* A model of XClone (src/main.py): a terminal program over a SQLite       *)
(* database with the tables users, follows, tweets, retweets,              *)
(* hashtag_mentions, lists and include.                                    *)
(*                                                                         *)
(* Tables are sequences of rows in rowid order.  Strings that the program  *)
(* inspects character by character (user ids typed at login, tweet text,   *)
(* keywords) are sequences of one-character strings.  Dates and times are  *)
(* the zero-padded strings '%Y-%m-%d' and '%H:%M:%S', whose lexicographic  *)
(* order is the numeric order of the naturals used here; the time 0 is the *)
(* empty string '' a retweet carries in the feed.                          *)
(***************************************************************************)
EXTENDS Integers, Sequences, FiniteSets, TLC

VARIABLES
  users,     \* rows [usr, email, phone, pwd]
  follows,   \* rows [flwer, flwee]
  tweets,    \* rows [tid, writer_id, text, tdate, ttime, replyto_tid]
  retweets,  \* rows [tid, retweeter_id, writer_id, spam, rdate]
  mentions,  \* hashtag_mentions rows [tid, term]
  lists,     \* rows [owner_id, lname]
  include,   \* rows [owner_id, lname, tid]
  pc,        \* the prompt the program is waiting at
  usr,       \* the usr argument of the running user_menu: the string typed at login
  stack,     \* usr of every user_menu suspended below a nested login_screen
  offset,    \* show_feed: offset
  shown,     \* show_feed: the entries printed since show_feed was entered
  more,      \* show_feed: more_tweets is non-empty
  results,   \* search_tweets: tweets, the rows the query returned
  sidx,      \* search_tweets: start_index
  cur,       \* view_tweet_statistics: tid
  target,    \* view_user_details: target_usr
  inp,       \* the line read by the last handler that asked for text
  msg,       \* the notice printed by the last step ("" when it printed none)
  sess,      \* the operation in flight in each of two further terminal sessions
  report,    \* list_favorite_lists: the fav_lists the last step printed, as entries
             \* [lname, tids, display] (<< >> when it printed none)
  sql        \* the last step executed a statement on the database

tables == <<users, follows, tweets, retweets, mentions, lists, include>>
feedvars == <<offset, shown, more>>
searchvars == <<results, sidx, cur>>
vars == <<users, follows, tweets, retweets, mentions, lists, include,
          pc, usr, stack, offset, shown, more, results, sidx, cur, target, inp, msg,
          sess, report, sql>>

----------------------------------------------------------------------------
(* Bounds of the model *)

MaxDepth == 1
MaxUsers == 3
MaxTweets == 3
MaxRetweets == 2
MaxFollows == 2
MaxLists == 2
MaxInclude == 2
MaxSearchTweets == 7
MaxTweetsA == 2
MaxPageTweets == 8
MaxPageRetweets == 3

(* Program constants *)

PageSize == 5
NULL == 0

Dates == {1, 2}
Today == 2
Times == {1, 2}

----------------------------------------------------------------------------
(* Strings *)

NoUser == << >>

\* no further session has an operation in flight
NoSessions == << >>

Min(a, b) == IF a <= b THEN a ELSE b

DigitVal(c) ==
  CASE c = "0" -> 0 [] c = "1" -> 1 [] c = "2" -> 2 [] c = "3" -> 3 [] c = "4" -> 4
    [] c = "5" -> 5 [] c = "6" -> 6 [] c = "7" -> 7 [] c = "8" -> 8 [] c = "9" -> 9

\* The value SQLite gives a digit string bound to a column of INTEGER affinity
\* (a comparison with usr, flwer, owner_id, ..., or an insert into one).
RECURSIVE SqlInt(_)
SqlInt(s) ==
  IF s = << >> THEN 0
  ELSE 10 * SqlInt(SubSeq(s, 1, Len(s) - 1)) + DigitVal(s[Len(s)])

\* Python's str(n) of a non-negative int: decimal digits, no leading zero.
DigitChar(d) ==
  CASE d = 0 -> "0" [] d = 1 -> "1" [] d = 2 -> "2" [] d = 3 -> "3" [] d = 4 -> "4"
    [] d = 5 -> "5" [] d = 6 -> "6" [] d = 7 -> "7" [] d = 8 -> "8" [] d = 9 -> "9"

RECURSIVE PyStr(_)
PyStr(n) ==
  IF n < 10 THEN <<DigitChar(n)>> ELSE Append(PyStr(n \div 10), DigitChar(n % 10))


Range(s) == {s[i] : i \in 1..Len(s)}

\* str.lower() and SQL LOWER() on the letters used here.
Lower(c) == CASE c = "G" -> "g" [] c = "O" -> "o" [] c = "H" -> "h" [] OTHER -> c

LowerStr(s) == [i \in 1..Len(s) |-> Lower(s[i])]

RECURSIVE LStrip(_)
LStrip(s) == IF s # << >> /\ Head(s) = " " THEN LStrip(Tail(s)) ELSE s

RECURSIVE RStrip(_)
RStrip(s) ==
  IF s # << >> /\ s[Len(s)] = " " THEN RStrip(SubSeq(s, 1, Len(s) - 1)) ELSE s

\* str.strip()
Strip(s) == RStrip(LStrip(s))

\* str.split(',')
RECURSIVE Split(_)
Split(s) ==
  IF "," \notin Range(s) THEN <<s>>
  ELSE LET i == CHOOSE k \in 1..Len(s) : s[k] = "," /\ \A j \in 1..(k - 1) : s[j] # ","
       IN <<SubSeq(s, 1, i - 1)>> \o Split(SubSeq(s, i + 1, Len(s)))

\* The characters \w matches.
WordChars ==
  {"d", "e", "g", "h", "i", "l", "o", "r", "s", "t", "u", "w", "x", "y",
   "G", "H", "O", "0", "1", "2", "_"}

RECURSIVE WordRun(_, _)
WordRun(s, i) == IF i <= Len(s) /\ s[i] \in WordChars THEN 1 + WordRun(s, i + 1) ELSE 0

\* re.findall(r"#\w+", s) from position i on.
RECURSIVE FindHashtags(_, _)
FindHashtags(s, i) ==
  IF i > Len(s) THEN << >>
  ELSE IF s[i] = "#" /\ WordRun(s, i + 1) > 0
  THEN <<SubSeq(s, i, i + WordRun(s, i + 1))>> \o FindHashtags(s, i + 1 + WordRun(s, i + 1))
  ELSE FindHashtags(s, i + 1)

\* SQL: t LIKE p, with % for any run of characters and _ for any one character.
RECURSIVE Like(_, _)
Like(p, t) ==
  IF p = << >> THEN t = << >>
  ELSE IF Head(p) = "%" THEN Like(Tail(p), t) \/ (t # << >> /\ Like(p, Tail(t)))
  ELSE /\ t # << >>
       /\ (Head(p) = "_" \/ Lower(Head(p)) = Lower(Head(t)))
       /\ Like(Tail(p), Tail(t))

\* SELECT MAX(col): NULL on no rows.
SqlMax(S) == IF S = {} THEN NULL ELSE CHOOSE m \in S : \A x \in S : x <= m

\* The orders in which the elements of a set can be iterated.
Orders(S) ==
  {f \in [1..Cardinality(S) -> S] : \A i, j \in 1..Cardinality(S) : i # j => f[i] # f[j]}

----------------------------------------------------------------------------
(* show_feed: the feed query *)

Followees(u) ==
  {follows[i].flwee : i \in {j \in 1..Len(follows) : follows[j].flwer = u}}

\* WHERE writer_id IN (SELECT flwee FROM follows WHERE flwer = ?)
TweetSelected(u, t) == t.writer_id \in Followees(u)

RetweetSelected_AnySpam(u, r) == r.retweeter_id \in Followees(u)

\* WHERE r.retweeter_id IN (SELECT flwee FROM follows WHERE flwer = ?) AND r.spam = 0
RetweetSelected(u, r) == r.retweeter_id \in Followees(u) /\ r.spam = 0

RECURSIVE TweetEntriesFrom(_, _)
TweetEntriesFrom(u, i) ==
  IF i > Len(tweets) THEN << >>
  ELSE LET t == tweets[i]
           rest == TweetEntriesFrom(u, i + 1)
       IN IF TweetSelected(u, t)
          THEN <<[type |-> "tweet", tid |-> t.tid, tdate |-> t.tdate, ttime |-> t.ttime,
                  spam |-> 0, text |-> t.text, rid |-> i]>> \o rest
          ELSE rest

\* First SELECT of the feed query; rid is the row the entry was read from.
TweetEntries(u) == TweetEntriesFrom(u, 1)

RECURSIVE RetweetEntriesFrom(_, _)
RetweetEntriesFrom(u, j) ==
  IF j > Len(retweets) THEN << >>
  ELSE LET r == retweets[j]
           joined == {i \in 1..Len(tweets) : tweets[i].tid = r.tid}
           rest == RetweetEntriesFrom(u, j + 1)
       IN IF RetweetSelected(u, r) /\ joined # {}
          THEN <<[type |-> "retweet", tid |-> r.tid, tdate |-> r.rdate, ttime |-> 0,
                  spam |-> r.spam, text |-> tweets[CHOOSE i \in joined : TRUE].text,
                  rid |-> j]>> \o rest
          ELSE rest

\* Second SELECT of the feed query (retweets JOIN tweets).
RetweetEntries(u) == RetweetEntriesFrom(u, 1)

Before_TimeAsc(a, b) == a.tdate > b.tdate \/ (a.tdate = b.tdate /\ a.ttime < b.ttime)

\* ORDER BY tdate DESC, ttime DESC: a sorts strictly before b.
Before(a, b) == a.tdate > b.tdate \/ (a.tdate = b.tdate /\ a.ttime > b.ttime)

RECURSIVE InsertDesc(_, _)
InsertDesc(e, s) ==
  IF s = << >> THEN <<e>>
  ELSE IF Before(e, Head(s)) THEN <<e>> \o s
  ELSE <<Head(s)>> \o InsertDesc(e, Tail(s))

\* SQLite's sort keeps rows of equal key in the order they were read.
RECURSIVE SortDesc(_)
SortDesc(s) ==
  IF s = << >> THEN << >>
  ELSE InsertDesc(s[Len(s)], SortDesc(SubSeq(s, 1, Len(s) - 1)))

\* The feed query without its LIMIT, for the viewer id u.
FeedAll(u) == SortDesc(TweetEntries(u) \o RetweetEntries(u))

\* cursor.execute(query, (usr, usr, off)): LIMIT 5 OFFSET off.
FeedPage(s, off) ==
  LET f == FeedAll(SqlInt(s))
  IN SubSeq(f, off + 1, Min(off + PageSize, Len(f)))

----------------------------------------------------------------------------
(* show_feed: the loop *)

AtFeedPrompt == pc \in {"feed_prompt", "feed_empty", "feed_nomore"}

FeedShow_PageFull ==
  /\ pc = "feed"
  /\ IF FeedPage(usr, 0) = << >>
     THEN /\ pc' = "feed_empty"
          /\ msg' = "No tweets to display."
          /\ UNCHANGED <<shown, more>>
     ELSE IF FeedPage(usr, offset) = << >>
     THEN /\ pc' = "feed_nomore"
          /\ msg' = "No more tweets available."
          /\ UNCHANGED <<shown, more>>
     ELSE /\ pc' = "feed_prompt"
          /\ shown' = shown \o FeedPage(usr, offset)
          /\ more' = (Len(FeedPage(usr, offset)) = PageSize)
          /\ msg' = "=== Your Feed ==="
  /\ UNCHANGED <<tables, usr, stack, offset, searchvars, target, inp>>
  /\ report' = << >>
  /\ sql' = TRUE
  /\ UNCHANGED sess

\* One pass of the while loop up to the prompt it stops at.
FeedShow ==
  /\ pc = "feed"
  /\ IF FeedPage(usr, 0) = << >>
     THEN /\ pc' = "feed_empty"
          /\ msg' = "No tweets to display."
          /\ UNCHANGED <<shown, more>>
     ELSE IF FeedPage(usr, offset) = << >>
     THEN /\ pc' = "feed_nomore"
          /\ msg' = "No more tweets available."
          /\ UNCHANGED <<shown, more>>
     ELSE /\ pc' = "feed_prompt"
          /\ shown' = shown \o FeedPage(usr, offset)
          /\ more' = (FeedPage(usr, offset + PageSize) # << >>)
          /\ msg' = "=== Your Feed ==="
  /\ UNCHANGED <<tables, usr, stack, offset, searchvars, target, inp>>
  /\ report' = << >>
  /\ sql' = TRUE
  /\ UNCHANGED sess

FeedNext_Overlap ==
  /\ pc = "feed_prompt"
  /\ more
  /\ offset' = offset + PageSize - 1
  /\ pc' = "feed"
  /\ msg' = ""
  /\ UNCHANGED <<tables, usr, stack, shown, more, searchvars, target, inp>>
  /\ report' = << >>
  /\ sql' = FALSE
  /\ UNCHANGED sess

\* 'n': offered only when more_tweets is non-empty.
FeedNext ==
  /\ pc = "feed_prompt"
  /\ more
  /\ offset' = offset + PageSize
  /\ pc' = "feed"
  /\ msg' = ""
  /\ UNCHANGED <<tables, usr, stack, shown, more, searchvars, target, inp>>
  /\ report' = << >>
  /\ sql' = FALSE
  /\ UNCHANGED sess

\* 'b': return to the caller, user_menu.
FeedBack ==
  /\ AtFeedPrompt
  /\ pc' = "dashboard"
  /\ msg' = ""
  /\ UNCHANGED <<tables, usr, stack, feedvars, searchvars, target, inp>>
  /\ report' = << >>
  /\ sql' = FALSE
  /\ UNCHANGED sess

\* 'q': login_screen(db_file) is called from inside show_feed.
FeedQuit ==
  /\ AtFeedPrompt
  /\ Len(stack) < MaxDepth
  /\ stack' = Append(stack, usr)
  /\ usr' = NoUser
  /\ pc' = "login_screen"
  /\ msg' = "Exiting feed..."
  /\ UNCHANGED <<tables, feedvars, searchvars, target, inp>>
  /\ report' = << >>
  /\ sql' = FALSE
  /\ UNCHANGED sess

----------------------------------------------------------------------------
(* Storage constraints: the keys of section 6 of the specification *)

UsersKeyFree(r) ==
  \A i \in 1..Len(users) :
    users[i].usr # r.usr /\ users[i].email # r.email /\ users[i].phone # r.phone

FollowsKeyFree(r) ==
  \A i \in 1..Len(follows) : ~(follows[i].flwer = r.flwer /\ follows[i].flwee = r.flwee)

RetweetsKeyFree(r) ==
  \A i \in 1..Len(retweets) :
    ~(retweets[i].tid = r.tid /\ retweets[i].retweeter_id = r.retweeter_id)

ListsKeyFree(r) ==
  \A i \in 1..Len(lists) : ~(lists[i].owner_id = r.owner_id /\ lists[i].lname = r.lname)

IncludeKeyFree(r) == \A i \in 1..Len(include) : include[i] # r

TweetsKeyFree(tid) == \A i \in 1..Len(tweets) : tweets[i].tid # tid

\* The id the storage gives a tweets row inserted without a tid.
AutoTid == IF tweets = << >> THEN 1 ELSE SqlMax({tweets[i].tid : i \in 1..Len(tweets)}) + 1

DbError == "Database error"

----------------------------------------------------------------------------
(* login_screen, login, sign_up *)

LoginInputs == {<<"1">>, <<"0", "1">>, <<"2">>}
Passwords == {"pw", "no"}

Idle == /\ results' = << >> /\ sidx' = 0 /\ cur' = NULL /\ target' = NULL /\ inp' = << >>

\* '1': login(db_file); a match enters user_menu, which first calls show_feed.
Login(s, p) ==
  /\ pc = "login_screen"
  /\ IF \E i \in 1..Len(users) : users[i].usr = SqlInt(s) /\ users[i].pwd = p
     THEN /\ usr' = s
          /\ pc' = "feed"
          /\ msg' = "Welcome"
     ELSE /\ msg' = "Invalid credentials or user not found."
          /\ UNCHANGED <<usr, pc>>
  /\ offset' = 0 /\ shown' = << >> /\ more' = FALSE
  /\ Idle
  /\ UNCHANGED <<tables, stack>>
  /\ report' = << >>
  /\ sql' = TRUE
  /\ UNCHANGED sess

NewUsr_MaxPlus2 ==
  LET max_usr == SqlMax({users[i].usr : i \in 1..Len(users)})
  IN IF max_usr # NULL /\ max_usr # 0 THEN max_usr + 2 ELSE 1

\* new_usr = max_usr + 1 if max_usr else 1
NewUsr ==
  LET max_usr == SqlMax({users[i].usr : i \in 1..Len(users)})
  IN IF max_usr # NULL /\ max_usr # 0 THEN max_usr + 1 ELSE 1

\* '2': sign_up(db_file), with an email and a phone that pass the format loops.
SignUp(email, phone) ==
  /\ pc = "login_screen"
  /\ Len(users) < MaxUsers
  /\ LET row == [usr |-> NewUsr, name |-> <<"x">>, email |-> email, phone |-> phone,
                 pwd |-> "pw"]
     IN IF UsersKeyFree(row)
        THEN /\ users' = Append(users, row)
             /\ msg' = "Registration successful!"
        ELSE /\ msg' = "Error: Email or phone already exists!"
             /\ UNCHANGED users
  /\ UNCHANGED <<follows, tweets, retweets, mentions, lists, include,
                 pc, usr, stack, feedvars, searchvars, target, inp>>
  /\ report' = << >>
  /\ sql' = TRUE
  /\ UNCHANGED sess

\* '3': the loop breaks and login_screen returns: to the interpreter, or into the
\* show_feed that called it, which returns to its user_menu.
Exit ==
  /\ pc = "login_screen"
  /\ IF stack = << >>
     THEN /\ pc' = "exited"
          /\ UNCHANGED <<usr, stack>>
     ELSE /\ pc' = "dashboard"
          /\ usr' = stack[Len(stack)]
          /\ stack' = SubSeq(stack, 1, Len(stack) - 1)
  /\ msg' = "Exiting system. Goodbye!"
  /\ UNCHANGED <<tables, feedvars, searchvars, target, inp>>
  /\ report' = << >>
  /\ sql' = FALSE
  /\ UNCHANGED sess

----------------------------------------------------------------------------
(* user_menu *)

\* '1'
ViewFeed ==
  /\ pc = "dashboard"
  /\ pc' = "feed"
  /\ offset' = 0 /\ shown' = << >> /\ more' = FALSE
  /\ msg' = ""
  /\ Idle
  /\ UNCHANGED <<tables, usr, stack>>
  /\ report' = << >>
  /\ sql' = FALSE
  /\ UNCHANGED sess

\* '8': user_menu returns to login, login to the login_screen loop that called it.
Logout ==
  /\ pc = "dashboard"
  /\ pc' = "login_screen"
  /\ usr' = NoUser
  /\ msg' = "Logging out..."
  /\ Idle
  /\ UNCHANGED <<tables, stack, feedvars>>
  /\ report' = << >>
  /\ sql' = FALSE
  /\ UNCHANGED sess

----------------------------------------------------------------------------
(* compose_tweet *)

\* get_new_tid: (max_tid or 0) + 1
NewTid ==
  LET max_tid == SqlMax({tweets[i].tid : i \in 1..Len(tweets)})
  IN (IF max_tid = NULL \/ max_tid = 0 THEN 0 ELSE max_tid) + 1

HasDuplicate(h) == \E i, j \in 1..Len(h) : i # j /\ h[i] = h[j]

Hashtags_CaseKept(text) == FindHashtags(text, 1)

\* hashtags = re.findall(r"#\w+", tweet_text.lower())
Hashtags(text) == FindHashtags(LowerStr(text), 1)

MentionRows(tid, order) == [k \in 1..Len(order) |-> [tid |-> tid, term |-> Tail(order[k])]]

ComposeTweet_NoEmptyCheck(raw, d, t) ==
  /\ pc = "dashboard"
  /\ inp' = raw
  /\ LET tweet_text == Strip(raw)
         hashtags == Hashtags(tweet_text)
     IN IF HasDuplicate(hashtags)
        THEN /\ msg' = "Error: The following hashtags are duplicated"
             /\ UNCHANGED <<tweets, mentions>>
        ELSE IF ~TweetsKeyFree(NewTid)
        THEN /\ msg' = DbError
             /\ UNCHANGED <<tweets, mentions>>
        ELSE /\ Len(tweets) < MaxTweets
             /\ tweets' = Append(tweets, [tid |-> NewTid, writer_id |-> SqlInt(usr),
                                          text |-> tweet_text, tdate |-> d, ttime |-> t,
                                          replyto_tid |-> NULL])
             /\ \E order \in Orders(Range(hashtags)) :
                  mentions' = mentions \o MentionRows(NewTid, order)
             /\ msg' = "Tweet posted successfully!"
  /\ results' = << >> /\ sidx' = 0 /\ cur' = NULL /\ target' = NULL
  /\ UNCHANGED <<users, follows, retweets, lists, include, pc, usr, stack, feedvars>>
  /\ report' = << >>
  /\ sql' = ~HasDuplicate(Hashtags(Strip(raw)))
  /\ UNCHANGED sess

\* '2': compose_tweet(db_file, usr) on the line raw, at local date d and time t.
\* The rows of set(hashtags) are inserted in the set's iteration order.
ComposeTweet(raw, d, t) ==
  /\ pc = "dashboard"
  /\ inp' = raw
  /\ LET tweet_text == Strip(raw)
         hashtags == Hashtags(tweet_text)
     IN IF tweet_text = << >>
        THEN /\ msg' = "Tweet cannot be empty."
             /\ UNCHANGED <<tweets, mentions>>
        ELSE IF HasDuplicate(hashtags)
        THEN /\ msg' = "Error: The following hashtags are duplicated"
             /\ UNCHANGED <<tweets, mentions>>
        ELSE IF ~TweetsKeyFree(NewTid)
        THEN /\ msg' = DbError
             /\ UNCHANGED <<tweets, mentions>>
        ELSE /\ Len(tweets) < MaxTweets
             /\ tweets' = Append(tweets, [tid |-> NewTid, writer_id |-> SqlInt(usr),
                                          text |-> tweet_text, tdate |-> d, ttime |-> t,
                                          replyto_tid |-> NULL])
             /\ \E order \in Orders(Range(hashtags)) :
                  mentions' = mentions \o MentionRows(NewTid, order)
             /\ msg' = "Tweet posted successfully!"
  /\ results' = << >> /\ sidx' = 0 /\ cur' = NULL /\ target' = NULL
  /\ UNCHANGED <<users, follows, retweets, lists, include, pc, usr, stack, feedvars>>
  /\ report' = << >>
  /\ sql' = (Strip(raw) # << >> /\ ~HasDuplicate(Hashtags(Strip(raw))))
  /\ UNCHANGED sess

----------------------------------------------------------------------------
(* search_tweets *)

\* [kw.strip().lower() for kw in keywords_input.split(',') if kw.strip()]
Keywords(raw) ==
  LET parts == Split(Strip(raw))
      kept == SelectSeq(parts, LAMBDA kw : Strip(kw) # << >>)
  IN [k \in 1..Len(kept) |-> LowerStr(Strip(kept[k]))]

\* LOWER(text) LIKE '%kw%' for some keyword
TextMatch(kws, t) ==
  \E k \in 1..Len(kws) : Like(<<"%">> \o kws[k] \o <<"%">>, LowerStr(t.text))

\* a hashtag_mentions row of the tweet has LOWER(term) IN (keywords)
TagMatch(kws, t) ==
  \E m \in 1..Len(mentions) :
    /\ mentions[m].tid = t.tid
    /\ \E k \in 1..Len(kws) : LowerStr(mentions[m].term) = kws[k]

\* UNION keeps one copy of a row; ORDER BY tdate DESC, ttime DESC, and rows of
\* equal date and time come out by the remaining columns, tid first.
SearchBefore(a, b) ==
  Before(a, b) \/ (a.tdate = b.tdate /\ a.ttime = b.ttime /\ a.tid < b.tid)

SearchQuery(kws) ==
  LET rows == {[tid |-> tweets[i].tid, writer_id |-> tweets[i].writer_id,
                text |-> tweets[i].text, tdate |-> tweets[i].tdate,
                ttime |-> tweets[i].ttime] :
                 i \in {j \in 1..Len(tweets) :
                          TextMatch(kws, tweets[j]) \/ TagMatch(kws, tweets[j])}}
  IN [k \in 1..Cardinality(rows) |->
        CHOOSE r \in rows : Cardinality({q \in rows : SearchBefore(q, r)}) = k - 1]

\* '3': search_tweets(db_file, usr) up to its first prompt.
SearchTweets(raw) ==
  /\ pc = "dashboard"
  /\ inp' = raw
  /\ LET keywords == Keywords(raw)
     IN IF keywords = << >>
        THEN /\ msg' = "No keywords provided."
             /\ results' = << >>
             /\ pc' = pc
        ELSE IF SearchQuery(keywords) = << >>
        THEN /\ msg' = "No tweets found matching the keywords."
             /\ results' = << >>
             /\ pc' = pc
        ELSE /\ msg' = "=== Search Results ==="
             /\ results' = SearchQuery(keywords)
             /\ pc' = IF Len(SearchQuery(keywords)) > PageSize
                      THEN "search_more" ELSE "search_select"
  /\ sidx' = 0 /\ cur' = NULL /\ target' = NULL
  /\ UNCHANGED <<tables, usr, stack, feedvars>>
  /\ report' = << >>
  /\ sql' = (Keywords(raw) # << >>)
  /\ UNCHANGED sess

\* 'y' at "More tweets available": the next five are printed.
SearchMore ==
  /\ pc = "search_more"
  /\ sidx' = sidx + PageSize
  /\ pc' = IF Len(results) > sidx' + PageSize THEN "search_more" ELSE "search_select"
  /\ msg' = ""
  /\ UNCHANGED <<tables, usr, stack, feedvars, results, cur, target, inp>>
  /\ report' = << >>
  /\ sql' = FALSE
  /\ UNCHANGED sess

\* any other answer leaves the loop for the selection prompt.
SearchStop ==
  /\ pc = "search_more"
  /\ pc' = "search_select"
  /\ msg' = ""
  /\ UNCHANGED <<tables, usr, stack, feedvars, searchvars, target, inp>>
  /\ report' = << >>
  /\ sql' = FALSE
  /\ UNCHANGED sess

SearchSelect_PageLocal(k) ==
  /\ pc = "search_select"
  /\ IF 1 <= k /\ k <= Len(results)
     THEN /\ cur' = results[Min(sidx + k, Len(results))].tid
          /\ pc' = "tweet_stats"
          /\ msg' = "=== Tweet Statistics ==="
          /\ UNCHANGED <<results, sidx>>
     ELSE /\ pc' = "dashboard"
          /\ msg' = ""
          /\ results' = << >> /\ sidx' = 0 /\ cur' = NULL
  /\ inp' = PyStr(k)
  /\ UNCHANGED <<tables, usr, stack, feedvars, target>>
  /\ report' = << >>
  /\ sql' = (1 <= k /\ k <= Len(results))
  /\ UNCHANGED sess

\* a number k at the selection prompt: view_tweet_statistics for 1 <= k <= N,
\* back to the dashboard otherwise.
SearchSelect(k) ==
  /\ pc = "search_select"
  /\ IF 1 <= k /\ k <= Len(results)
     THEN /\ cur' = results[k].tid
          /\ pc' = "tweet_stats"
          /\ msg' = "=== Tweet Statistics ==="
          /\ UNCHANGED <<results, sidx>>
     ELSE /\ pc' = "dashboard"
          /\ msg' = ""
          /\ results' = << >> /\ sidx' = 0 /\ cur' = NULL
  /\ inp' = PyStr(k)
  /\ UNCHANGED <<tables, usr, stack, feedvars, target>>
  /\ report' = << >>
  /\ sql' = (1 <= k /\ k <= Len(results))
  /\ UNCHANGED sess

\* 'q' at the selection prompt.
SearchQuit ==
  /\ pc = "search_select"
  /\ pc' = "dashboard"
  /\ msg' = ""
  /\ results' = << >> /\ sidx' = 0 /\ cur' = NULL
  /\ inp' = <<"q">>
  /\ UNCHANGED <<tables, usr, stack, feedvars, target>>
  /\ report' = << >>
  /\ sql' = FALSE
  /\ UNCHANGED sess

----------------------------------------------------------------------------
(* view_tweet_statistics and its actions *)

RetweetCount(tid) == Cardinality({i \in 1..Len(retweets) : retweets[i].tid = tid})
ReplyCount(tid) == Cardinality({i \in 1..Len(tweets) : tweets[i].replyto_tid = tid})

\* '4': back, through search_tweets, to the dashboard.
StatsBack ==
  /\ pc = "tweet_stats"
  /\ pc' = "dashboard"
  /\ msg' = ""
  /\ results' = << >> /\ sidx' = 0 /\ cur' = NULL
  /\ UNCHANGED <<tables, usr, stack, feedvars, target, inp>>
  /\ report' = << >>
  /\ sql' = FALSE
  /\ UNCHANGED sess

ComposeReply_Overwrite(raw, d, t) ==
  /\ pc = "tweet_stats"
  /\ inp' = raw
  /\ LET reply_text == Strip(raw)
     IN IF reply_text # << >>
        THEN /\ Len(tweets) < MaxTweets
             /\ tweets' = [i \in 1..Len(tweets) |->
                             IF tweets[i].tid = cur
                             THEN [tweets[i] EXCEPT !.text = reply_text, !.tdate = d,
                                                    !.ttime = t]
                             ELSE tweets[i]]
             /\ msg' = "Reply posted successfully!"
        ELSE /\ msg' = ""
             /\ UNCHANGED tweets
  /\ UNCHANGED <<users, follows, retweets, mentions, lists, include,
                 pc, usr, stack, feedvars, searchvars, target>>
  /\ report' = << >>
  /\ sql' = (Strip(raw) # << >>)
  /\ UNCHANGED sess

\* '1': compose_reply(db_file, tid, usr); the INSERT names no tid.
ComposeReply(raw, d, t) ==
  /\ pc = "tweet_stats"
  /\ inp' = raw
  /\ LET reply_text == Strip(raw)
     IN IF reply_text # << >>
        THEN /\ Len(tweets) < MaxTweets
             /\ tweets' = Append(tweets, [tid |-> AutoTid, writer_id |-> SqlInt(usr),
                                          text |-> reply_text, tdate |-> d, ttime |-> t,
                                          replyto_tid |-> cur])
             /\ msg' = "Reply posted successfully!"
        ELSE /\ msg' = ""
             /\ UNCHANGED tweets
  /\ UNCHANGED <<users, follows, retweets, mentions, lists, include,
                 pc, usr, stack, feedvars, searchvars, target>>
  /\ report' = << >>
  /\ sql' = (Strip(raw) # << >>)
  /\ UNCHANGED sess

Retweet_NoCheck(d) ==
  /\ pc = "tweet_stats"
  /\ LET found == {i \in 1..Len(tweets) : tweets[i].tid = cur}
         row == [tid |-> cur, retweeter_id |-> SqlInt(usr),
                 writer_id |-> tweets[CHOOSE i \in found : TRUE].writer_id,
                 spam |-> 0, rdate |-> d]
     IN IF found = {}
        THEN /\ msg' = "Tweet not found."
             /\ UNCHANGED retweets
        ELSE IF RetweetsKeyFree(row)
        THEN /\ Len(retweets) < MaxRetweets
             /\ retweets' = Append(retweets, row)
             /\ msg' = "Retweet posted successfully!"
        ELSE /\ msg' = DbError
             /\ UNCHANGED retweets
  /\ UNCHANGED <<users, follows, tweets, mentions, lists, include,
                 pc, usr, stack, feedvars, searchvars, target, inp>>
  /\ report' = << >>
  /\ sql' = TRUE
  /\ UNCHANGED sess

\* '2': retweet(db_file, tid, usr) on the local date d.
Retweet(d) ==
  /\ pc = "tweet_stats"
  /\ LET found == {i \in 1..Len(tweets) : tweets[i].tid = cur}
         row == [tid |-> cur, retweeter_id |-> SqlInt(usr),
                 writer_id |-> tweets[CHOOSE i \in found : TRUE].writer_id,
                 spam |-> 0, rdate |-> d]
     IN IF \E i \in 1..Len(retweets) :
             retweets[i].tid = cur /\ retweets[i].retweeter_id = SqlInt(usr)
        THEN /\ msg' = "You have already retweeted this tweet."
             /\ UNCHANGED retweets
        ELSE IF found = {}
        THEN /\ msg' = "Tweet not found."
             /\ UNCHANGED retweets
        ELSE IF RetweetsKeyFree(row)
        THEN /\ Len(retweets) < MaxRetweets
             /\ retweets' = Append(retweets, row)
             /\ msg' = "Retweet posted successfully!"
        ELSE /\ msg' = DbError
             /\ UNCHANGED retweets
  /\ UNCHANGED <<users, follows, tweets, mentions, lists, include,
                 pc, usr, stack, feedvars, searchvars, target, inp>>
  /\ report' = << >>
  /\ sql' = TRUE
  /\ UNCHANGED sess

----------------------------------------------------------------------------
(* create_favorite_list, add_to_favorite_list *)

OwnLists_AnyOwner(u) == {lists[i].lname : i \in 1..Len(lists)}

\* SELECT lname FROM lists WHERE owner_id = ?
OwnLists(u) == {lists[i].lname : i \in {j \in 1..Len(lists) : lists[j].owner_id = u}}

CreatedLists_AnyOwner(raw) ==
  LET list_name == Strip(raw)
      row == [owner_id |-> SqlInt(usr), lname |-> list_name]
  IN IF list_name = << >> \/ list_name \in {lists[i].lname : i \in 1..Len(lists)}
        \/ ~ListsKeyFree(row)
     THEN lists
     ELSE Append(lists, row)

\* create_favorite_list(db_file, usr) on the line raw: the rows of lists and the
\* notice it leaves.
CreatedLists(raw) ==
  LET list_name == Strip(raw)
      row == [owner_id |-> SqlInt(usr), lname |-> list_name]
  IN IF list_name = << >> \/ list_name \in OwnLists(SqlInt(usr)) \/ ~ListsKeyFree(row)
     THEN lists
     ELSE Append(lists, row)

CreateNotice(raw) ==
  LET list_name == Strip(raw)
      row == [owner_id |-> SqlInt(usr), lname |-> list_name]
  IN IF list_name = << >> THEN "List name cannot be empty."
     ELSE IF list_name \in OwnLists(SqlInt(usr)) THEN "A list with this name already exists."
     ELSE IF ListsKeyFree(row) THEN "Favorite list created successfully."
     ELSE DbError

\* '5' on the dashboard.
CreateFavoriteList(raw) ==
  /\ pc = "dashboard"
  /\ Len(CreatedLists(raw)) <= MaxLists
  /\ lists' = CreatedLists(raw)
  /\ msg' = CreateNotice(raw)
  /\ inp' = raw
  /\ results' = << >> /\ sidx' = 0 /\ cur' = NULL /\ target' = NULL
  /\ UNCHANGED <<users, follows, tweets, retweets, mentions, include,
                 pc, usr, stack, feedvars>>
  /\ report' = << >>
  /\ sql' = (Strip(raw) # << >>)
  /\ UNCHANGED sess

\* '3' on the statistics menu: add_to_favorite_list up to its first prompt.
AddToFavoriteList ==
  /\ pc = "tweet_stats"
  /\ IF OwnLists(SqlInt(usr)) = {}
     THEN /\ msg' = "You have no favorite lists. Create one first."
          /\ pc' = "fav_create"
     ELSE /\ msg' = "=== Your Favorite Lists ==="
          /\ pc' = "fav_select"
  /\ UNCHANGED <<tables, usr, stack, feedvars, searchvars, target, inp>>
  /\ report' = << >>
  /\ sql' = TRUE
  /\ UNCHANGED sess

\* the name asked by the create_favorite_list that add_to_favorite_list calls,
\* and the re-fetch after it.
FavCreate(raw) ==
  /\ pc = "fav_create"
  /\ Len(CreatedLists(raw)) <= MaxLists
  /\ lists' = CreatedLists(raw)
  /\ msg' = CreateNotice(raw)
  /\ inp' = raw
  /\ pc' = IF \E i \in 1..Len(CreatedLists(raw)) :
                CreatedLists(raw)[i].owner_id = SqlInt(usr)
           THEN "fav_select" ELSE "tweet_stats"
  /\ UNCHANGED <<users, follows, tweets, retweets, mentions, include,
                 usr, stack, feedvars, searchvars, target>>
  /\ report' = << >>
  /\ sql' = TRUE
  /\ UNCHANGED sess

FavSelect_Toggle(k) ==
  /\ pc = "fav_select"
  /\ \E fav_lists \in Orders(OwnLists(SqlInt(usr))) :
       IF 1 <= k /\ k <= Len(fav_lists)
       THEN LET row == [owner_id |-> SqlInt(usr), lname |-> fav_lists[k], tid |-> cur]
            IN IF \E i \in 1..Len(include) : include[i] = row
               THEN /\ msg' = "This tweet is already in the selected list."
                    /\ include' = SelectSeq(include, LAMBDA r : r # row)
               ELSE IF IncludeKeyFree(row)
               THEN /\ Len(include) < MaxInclude
                    /\ include' = Append(include, row)
                    /\ msg' = "Tweet added"
               ELSE /\ msg' = DbError
                    /\ UNCHANGED include
       ELSE /\ msg' = ""
            /\ UNCHANGED include
  /\ pc' = "tweet_stats"
  /\ UNCHANGED <<users, follows, tweets, retweets, mentions, lists,
                 usr, stack, feedvars, searchvars, target, inp>>
  /\ report' = << >>
  /\ sql' = (1 <= k /\ k <= Cardinality(OwnLists(SqlInt(usr))))
  /\ UNCHANGED sess

\* a number k at "Select a list by number": the k-th fetched list; the order of
\* the fetched rows is the storage's.
FavSelect(k) ==
  /\ pc = "fav_select"
  /\ \E fav_lists \in Orders(OwnLists(SqlInt(usr))) :
       IF 1 <= k /\ k <= Len(fav_lists)
       THEN LET row == [owner_id |-> SqlInt(usr), lname |-> fav_lists[k], tid |-> cur]
            IN IF \E i \in 1..Len(include) : include[i] = row
               THEN /\ msg' = "This tweet is already in the selected list."
                    /\ UNCHANGED include
               ELSE IF IncludeKeyFree(row)
               THEN /\ Len(include) < MaxInclude
                    /\ include' = Append(include, row)
                    /\ msg' = "Tweet added"
               ELSE /\ msg' = DbError
                    /\ UNCHANGED include
       ELSE /\ msg' = ""
            /\ UNCHANGED include
  /\ pc' = "tweet_stats"
  /\ UNCHANGED <<users, follows, tweets, retweets, mentions, lists,
                 usr, stack, feedvars, searchvars, target, inp>>
  /\ report' = << >>
  /\ sql' = (1 <= k /\ k <= Cardinality(OwnLists(SqlInt(usr))))
  /\ UNCHANGED sess

\* 'q' at "Select a list by number".
FavCancel ==
  /\ pc = "fav_select"
  /\ pc' = "tweet_stats"
  /\ msg' = ""
  /\ UNCHANGED <<tables, usr, stack, feedvars, searchvars, target, inp>>
  /\ report' = << >>
  /\ sql' = FALSE
  /\ UNCHANGED sess

----------------------------------------------------------------------------
(* search_users, list_followers, view_user_details, follow_user *)

\* ORDER BY LENGTH(name) ASC over the rows in stored order.
RECURSIVE ByNameLength(_)
ByNameLength(rows) ==
  IF rows = << >> THEN << >>
  ELSE LET i == CHOOSE k \in 1..Len(rows) :
                  /\ \A j \in 1..Len(rows) : Len(rows[k].name) <= Len(rows[j].name)
                  /\ \A j \in 1..(k - 1) : Len(rows[j].name) > Len(rows[k].name)
       IN <<rows[i]>> \o ByNameLength(SubSeq(rows, 1, i - 1) \o SubSeq(rows, i + 1, Len(rows)))

\* '4': search_users(db_file, usr) up to the selection prompt; with fewer than
\* six users no "more" prompt comes first.
SearchUsers(raw) ==
  /\ pc = "dashboard"
  /\ inp' = raw
  /\ LET keyword == LowerStr(Strip(raw))
         found == ByNameLength(SelectSeq(users,
                     LAMBDA u : Like(<<"%">> \o keyword \o <<"%">>, u.name)))
     IN IF found = << >>
        THEN /\ msg' = "No users found matching the keyword."
             /\ results' = << >>
             /\ pc' = pc
        ELSE /\ msg' = "=== Search Results ==="
             /\ results' = found
             /\ pc' = "users_select"
  /\ sidx' = 0 /\ cur' = NULL /\ target' = NULL
  /\ UNCHANGED <<tables, usr, stack, feedvars>>
  /\ report' = << >>
  /\ sql' = TRUE
  /\ UNCHANGED sess

\* the users row with id u
UserRow(u) == users[CHOOSE i \in 1..Len(users) : users[i].usr = u]

\* followers of u in ORDER BY users.usr
RECURSIVE FollowersFrom(_, _)
FollowersFrom(u, S) ==
  IF S = {} THEN << >>
  ELSE LET i == CHOOSE k \in S : \A j \in S : follows[k].flwer <= follows[j].flwer
       IN <<UserRow(follows[i].flwer)>> \o FollowersFrom(u, S \ {i})

\* '7': list_followers(db_file, usr) up to the selection prompt.
ListFollowers ==
  /\ pc = "dashboard"
  /\ LET followers == FollowersFrom(SqlInt(usr),
                        {i \in 1..Len(follows) : follows[i].flwee = SqlInt(usr)})
     IN IF followers = << >>
        THEN /\ msg' = "You have no followers."
             /\ results' = << >>
             /\ pc' = pc
        ELSE /\ msg' = "=== Your Followers ==="
             /\ results' = followers
             /\ pc' = "users_select"
  /\ sidx' = 0 /\ cur' = NULL /\ target' = NULL
  /\ UNCHANGED <<tables, usr, stack, feedvars, inp>>
  /\ report' = << >>
  /\ sql' = TRUE
  /\ UNCHANGED sess

\* a number k at "Select a user by number": view_user_details for 1 <= k <= N.
UsersSelect(k) ==
  /\ pc = "users_select"
  /\ IF 1 <= k /\ k <= Len(results)
     THEN /\ target' = results[k].usr
          /\ pc' = "user_details"
          /\ msg' = "=== User Details ==="
     ELSE /\ target' = NULL
          /\ pc' = "dashboard"
          /\ msg' = ""
  /\ results' = << >>
  /\ UNCHANGED <<tables, usr, stack, feedvars, sidx, cur, inp>>
  /\ report' = << >>
  /\ sql' = (1 <= k /\ k <= Len(results))
  /\ UNCHANGED sess

\* 'q' at the selection prompt.
UsersQuit ==
  /\ pc = "users_select"
  /\ pc' = "dashboard"
  /\ msg' = ""
  /\ results' = << >>
  /\ UNCHANGED <<tables, usr, stack, feedvars, sidx, cur, target, inp>>
  /\ report' = << >>
  /\ sql' = FALSE
  /\ UNCHANGED sess

FollowUser_NoCheck(d) ==
  /\ pc = "user_details"
  /\ LET row == [flwer |-> SqlInt(usr), flwee |-> target, start_date |-> d]
     IN IF usr = PyStr(target)
        THEN /\ msg' = "You cannot follow yourself."
             /\ UNCHANGED follows
        ELSE IF FollowsKeyFree(row)
        THEN /\ Len(follows) < MaxFollows
             /\ follows' = Append(follows, row)
             /\ msg' = "You are now following this user!"
        ELSE /\ msg' = DbError
             /\ UNCHANGED follows
  /\ pc' = "dashboard"
  /\ target' = NULL
  /\ UNCHANGED <<users, tweets, retweets, mentions, lists, include,
                 usr, stack, feedvars, searchvars, inp>>
  /\ report' = << >>
  /\ sql' = (usr # PyStr(target))
  /\ UNCHANGED sess

\* '1' on the details menu: follow_user(db_file, current_usr, target_usr) on the
\* date d; current_usr is the text typed at login, target_usr the id read from
\* the users table.
FollowUser(d) ==
  /\ pc = "user_details"
  /\ LET row == [flwer |-> SqlInt(usr), flwee |-> target, start_date |-> d]
     IN IF usr = PyStr(target)
        THEN /\ msg' = "You cannot follow yourself."
             /\ UNCHANGED follows
        ELSE IF \E i \in 1..Len(follows) :
                  follows[i].flwer = SqlInt(usr) /\ follows[i].flwee = target
        THEN /\ msg' = "You are already following this user."
             /\ UNCHANGED follows
        ELSE IF FollowsKeyFree(row)
        THEN /\ Len(follows) < MaxFollows
             /\ follows' = Append(follows, row)
             /\ msg' = "You are now following this user!"
        ELSE /\ msg' = DbError
             /\ UNCHANGED follows
  /\ pc' = "dashboard"
  /\ target' = NULL
  /\ UNCHANGED <<users, tweets, retweets, mentions, lists, include,
                 usr, stack, feedvars, searchvars, inp>>
  /\ report' = << >>
  /\ sql' = (usr # PyStr(target))
  /\ UNCHANGED sess

\* '2' (view_more_tweets, which writes nothing), '3' or any other line on the
\* details menu.
UserBack ==
  /\ pc = "user_details"
  /\ pc' = "dashboard"
  /\ target' = NULL
  /\ msg' = ""
  /\ UNCHANGED <<tables, usr, stack, feedvars, searchvars, inp>>
  /\ report' = << >>
  /\ sql' \in BOOLEAN
  /\ UNCHANGED sess

----------------------------------------------------------------------------
(* list_favorite_lists *)

\* The characters of list names, in the order of their code points.
NameChars == <<" ", "a", "b">>

CharCode(c) == CHOOSE i \in 1..Len(NameChars) : NameChars[i] = c

\* ORDER BY l.lname: the comparison of two texts.
NameBefore(a, b) ==
  \E n \in 0..Min(Len(a), Len(b)) :
    /\ \A i \in 1..n : a[i] = b[i]
    /\ \/ n = Len(a) /\ n < Len(b)
       \/ n < Len(a) /\ n < Len(b) /\ CharCode(a[n + 1]) < CharCode(b[n + 1])

JoinedTids_InnerJoin(u, l) ==
  {include[i].tid : i \in {j \in 1..Len(include) :
                             include[j].owner_id = u /\ include[j].lname = l}}

\* The tids of the rows that lists LEFT JOIN include yields for the list l of
\* owner u; a list without include rows yields one row whose tid is NULL.
JoinedTids(u, l) ==
  LET rows == {i \in 1..Len(include) : include[i].owner_id = u /\ include[i].lname = l}
  IN IF rows = {} THEN {NULL} ELSE {include[i].tid : i \in rows}

\* fav_lists[list_name] and its line: 'if tid:' drops the NULL of an empty list.
FavEntry(l, order) ==
  LET tids == SelectSeq(order, LAMBDA tid : tid # NULL /\ tid # 0)
  IN [lname |-> l, tids |-> tids,
      display |-> IF tids = << >> THEN "No tweets in this list." ELSE "tids"]

\* '6' on the dashboard: list_favorite_lists(db_file, usr).  The lists come in
\* the order of their names; the rows of one list in the order the join yields.
ListFavoriteLists ==
  /\ pc = "dashboard"
  /\ LET u == SqlInt(usr)
         \* the list names among the rows the query returns
         names == {l \in OwnLists(u) : JoinedTids(u, l) # {}}
     IN IF names = {}
        THEN /\ msg' = "You have no favorite lists."
             /\ report' = << >>
        ELSE /\ msg' = "=== Your Favorite Lists ==="
             /\ \E by_name \in {o \in Orders(names) :
                                  \A i, j \in 1..Len(o) : i < j => NameBefore(o[i], o[j])} :
                  \E rows \in [1..Len(by_name) -> UNION {Orders(JoinedTids(u, l)) : l \in names}] :
                    /\ \A k \in 1..Len(by_name) : rows[k] \in Orders(JoinedTids(u, by_name[k]))
                    /\ report' = [k \in 1..Len(by_name) |-> FavEntry(by_name[k], rows[k])]
  /\ results' = << >> /\ sidx' = 0 /\ cur' = NULL /\ target' = NULL
  /\ sql' = TRUE
  /\ UNCHANGED <<tables, pc, usr, stack, feedvars, inp, sess>>

----------------------------------------------------------------------------
(* Snapshots the feed is checked on *)

Seq1(n, F(_)) == [i \in 1..n |-> F(i)]

Names == <<<<"G", "o">>, <<"g">>, <<"H", "u", "g", "o">>>>
User(u) == [usr |-> u, name |-> Names[u], email |-> <<"e", u>>, phone |-> u, pwd |-> "pw"]

FeedText == <<"h", "i">>

InitFeedCommon ==
  /\ users = <<User(1), User(2), User(3)>>
  /\ mentions = << >>
  /\ lists = << >>
  /\ include = << >>
  /\ pc = "feed"
  /\ stack = << >>
  /\ offset = 0
  /\ shown = << >>
  /\ more = FALSE
  /\ results = << >>
  /\ sidx = 0
  /\ cur = NULL
  /\ target = NULL
  /\ inp = << >>
  /\ msg = ""
  /\ sess = NoSessions
  /\ report = << >>
  /\ sql = FALSE

\* Few rows, every combination of writer, date, time, retweeter and spam flag.
InitFeedA ==
  /\ InitFeedCommon
  /\ usr \in {<<"1">>, <<"0", "2">>}
  /\ \E F \in SUBSET {1, 2} :
       follows = SelectSeq(<<[flwer |-> 1, flwee |-> 2], [flwer |-> 2, flwee |-> 3]>>,
                           LAMBDA e : e.flwer \in F)
  /\ \E n \in 0..MaxTweetsA :
       /\ \E a \in [1..n -> [w : {2, 3}, d : Dates, t : Times]] :
            tweets = [i \in 1..n |-> [tid |-> i, writer_id |-> a[i].w, text |-> FeedText,
                                      tdate |-> a[i].d, ttime |-> a[i].t,
                                      replyto_tid |-> NULL]]
       /\ \/ retweets = << >>
          \/ \E r \in [tid : 1..n, retweeter_id : {2, 3}, spam : {0, 1}, rdate : Dates] :
               retweets = <<[tid |-> r.tid, retweeter_id |-> r.retweeter_id,
                             writer_id |-> 2, spam |-> r.spam, rdate |-> r.rdate]>>

\* Many rows of a followed user on one date, so that pages fill and keys tie.
InitFeedB ==
  /\ InitFeedCommon
  /\ usr = <<"1">>
  /\ follows = <<[flwer |-> 1, flwee |-> 2]>>
  /\ \E n \in 0..MaxPageTweets :
       /\ \E a \in [1..n -> Times] :
            tweets = [i \in 1..n |-> [tid |-> i, writer_id |-> 2, text |-> FeedText,
                                      tdate |-> 1, ttime |-> a[i], replyto_tid |-> NULL]]
       /\ \E k \in 0..Min(n, MaxPageRetweets) :
            retweets = [j \in 1..k |-> [tid |-> j, retweeter_id |-> 2, writer_id |-> 2,
                                        spam |-> 0, rdate |-> 1]]

InitFeed == InitFeedA \/ InitFeedB

NextFeed == FeedShow \/ FeedNext \/ FeedBack \/ FeedQuit

SpecFeed == InitFeed /\ [][NextFeed]_vars

----------------------------------------------------------------------------
(* Claims about the feed *)

\* The user ids a session can carry: what login accepts for the users 1..3.
Viewers == {<<"1">>, <<"0", "2">>, <<"3">>}

FollowsEdge(u, v) == \E i \in 1..Len(follows) : follows[i].flwer = u /\ follows[i].flwee = v

\* The pages at offsets off, off + 5, ... up to the first empty one, concatenated.
RECURSIVE Stream(_, _)
Stream(s, off) ==
  IF FeedPage(s, off) = << >> THEN << >>
  ELSE FeedPage(s, off) \o Stream(s, off + PageSize)

Occurs(f, type, rid) == Cardinality({p \in 1..Len(f) : f[p].type = type /\ f[p].rid = rid})

EligibleTweets(u) == {i \in 1..Len(tweets) : FollowsEdge(u, tweets[i].writer_id)}

EligibleRetweets(u) ==
  {j \in 1..Len(retweets) :
     retweets[j].spam = 0 /\ FollowsEdge(u, retweets[j].retweeter_id)}

\* C1: for every viewer, a row is on some feed page iff it is a tweet written by
\* a followed user or a retweet with spam = 0 made by a followed user; a retweet
\* with a non-zero spam flag is on no page.
C1_FeedMembership ==
  \A s \in Viewers :
    LET f == Stream(s, 0)
        u == SqlInt(s)
    IN /\ \A i \in 1..Len(tweets) :
            (Occurs(f, "tweet", i) > 0) <=> (i \in EligibleTweets(u))
       /\ \A j \in 1..Len(retweets) :
            /\ (Occurs(f, "retweet", j) > 0) <=> (j \in EligibleRetweets(u))
            /\ retweets[j].spam # 0 => Occurs(f, "retweet", j) = 0
       /\ \A p \in 1..Len(f) :
            \/ /\ f[p].type = "tweet"
               /\ f[p].rid \in 1..Len(tweets)
               /\ f[p].tid = tweets[f[p].rid].tid
            \/ /\ f[p].type = "retweet"
               /\ f[p].rid \in 1..Len(retweets)
               /\ f[p].tid = retweets[f[p].rid].tid

\* A page was printed while a followed user's spam retweet and an unfollowed
\* user's tweet were in the store.
C1_Witness ==
  /\ pc = "feed_prompt"
  /\ shown # << >>
  /\ \E j \in 1..Len(retweets) :
       retweets[j].spam = 1 /\ FollowsEdge(SqlInt(usr), retweets[j].retweeter_id)
  /\ \E i \in 1..Len(tweets) : ~FollowsEdge(SqlInt(usr), tweets[i].writer_id)

FeedEnded == (pc = "feed_prompt" /\ ~more) \/ pc \in {"feed_empty", "feed_nomore"}

C3_FeedOrder ==
  \A s \in Viewers :
    LET f == Stream(s, 0)
    IN \A p, q \in 1..Len(f) :
         p < q =>
           /\ f[p].tdate >= f[q].tdate
           /\ f[p].tdate = f[q].tdate => f[p].ttime >= f[q].ttime
           /\ (f[p].type = "retweet" /\ f[q].type = "tweet" /\ f[p].tdate = f[q].tdate)
                => f[q].ttime = 0

\* A page holds a retweet below a timed tweet of its date that was stored after
\* it, and above an entry of an earlier date.
C3_Witness ==
  /\ pc = "feed_prompt"
  /\ \E p, q, r \in 1..Len(shown) :
       /\ p < q /\ q < r
       /\ shown[p].type = "tweet" /\ shown[p].ttime > 0
       /\ shown[q].type = "retweet" /\ shown[q].tdate = shown[p].tdate
       /\ shown[r].tdate < shown[q].tdate

----------------------------------------------------------------------------
(* Sessions that log in, look users up and follow them *)

UserInputs == {<<"g">>, <<" ", "G", "o">>, <<"x">>}

InitFollow ==
  /\ users = <<User(1), User(2), User(3)>>
  /\ follows \in {<< >>, <<[flwer |-> 2, flwee |-> 1, start_date |-> 1]>>}
  /\ tweets = << >>
  /\ retweets = << >>
  /\ mentions = << >>
  /\ lists = << >>
  /\ include = << >>
  /\ pc = "login_screen"
  /\ usr = NoUser
  /\ stack = << >>
  /\ offset = 0
  /\ shown = << >>
  /\ more = FALSE
  /\ results = << >>
  /\ sidx = 0
  /\ cur = NULL
  /\ target = NULL
  /\ inp = << >>
  /\ msg = ""
  /\ sess = NoSessions
  /\ report = << >>
  /\ sql = FALSE

NextFollow ==
  \/ \E s \in LoginInputs, p \in Passwords : Login(s, p)
  \/ Exit
  \/ FeedShow
  \/ FeedBack
  \/ FeedQuit
  \/ ViewFeed
  \/ Logout
  \/ \E raw \in UserInputs : SearchUsers(raw)
  \/ ListFollowers
  \/ \E k \in 0..(MaxUsers + 1) : UsersSelect(k)
  \/ UsersQuit
  \/ FollowUser(Today)
  \/ UserBack

SpecFollow == InitFollow /\ [][NextFollow]_vars

\* C4: after any sequence of login and follow operations the follows table
\* holds no edge whose follower is its followee.
C4_NoSelfFollow == \A i \in 1..Len(follows) : follows[i].flwer # follows[i].flwee

\* the step taken is follow_user
FollowStep == pc = "user_details" /\ msg' # ""

EdgeCount(a, b) ==
  Cardinality({i \in 1..Len(follows) : follows[i].flwer = a /\ follows[i].flwee = b})

\* C5: a follow_user(A, B) with A # B and no edge (A, B) appends that edge and
\* nothing else; with the edge present it changes nothing and prints the
\* "already following" notice; no (follower, followee) pair is ever stored twice.
C5_FollowOnce ==
  [][ /\ \A a, b \in 1..MaxUsers : EdgeCount(a, b)' <= 1
      /\ (FollowStep /\ SqlInt(usr) # target) =>
           IF FollowsEdge(SqlInt(usr), target)
           THEN /\ UNCHANGED tables
                /\ msg' = "You are already following this user."
           ELSE /\ Len(follows') = Len(follows) + 1
                /\ SubSeq(follows', 1, Len(follows)) = follows
                /\ follows'[Len(follows')].flwer = SqlInt(usr)
                /\ follows'[Len(follows')].flwee = target
                /\ msg' = "You are now following this user!"
                /\ UNCHANGED <<users, tweets, retweets, mentions, lists, include>>
    ]_vars

\* User 1 followed user 2 in this run and a later follow of 2 by 1 was refused.
C5_Witness ==
  /\ msg = "You are already following this user."
  /\ SqlInt(usr) = 1
  /\ EdgeCount(1, 2) = 1

----------------------------------------------------------------------------
(* Sessions that search, open a tweet's statistics, retweet and save it *)

StatsText == <<"h", "i">>

ListInputs == {<<"a">>, <<"b", " ">>}

InitStats ==
  /\ users = <<User(1), User(2), User(3)>>
  /\ follows = << >>
  /\ tweets = <<[tid |-> 1, writer_id |-> 3, text |-> StatsText, tdate |-> 1, ttime |-> 1,
                 replyto_tid |-> NULL],
                [tid |-> 2, writer_id |-> 3, text |-> StatsText, tdate |-> 1, ttime |-> 2,
                 replyto_tid |-> NULL]>>
  /\ retweets \in {<< >>, <<[tid |-> 1, retweeter_id |-> 2, writer_id |-> 3, spam |-> 0,
                            rdate |-> 1]>>}
  /\ mentions = << >>
  /\ \/ /\ lists \in {<< >>, <<[owner_id |-> 1, lname |-> <<"a">>]>>}
        /\ include = << >>
     \/ /\ lists = <<[owner_id |-> 2, lname |-> <<"a">>]>>
        /\ include \in {<< >>, <<[owner_id |-> 2, lname |-> <<"a">>, tid |-> 1]>>}
  /\ pc = "login_screen"
  /\ usr = NoUser
  /\ stack = << >>
  /\ offset = 0
  /\ shown = << >>
  /\ more = FALSE
  /\ results = << >>
  /\ sidx = 0
  /\ cur = NULL
  /\ target = NULL
  /\ inp = << >>
  /\ msg = ""
  /\ sess = NoSessions
  /\ report = << >>
  /\ sql = FALSE

NextStats ==
  \/ \E s \in {<<"1">>, <<"0", "1">>} : Login(s, "pw")
  \/ FeedShow
  \/ FeedBack
  \/ Logout
  \/ SearchTweets(<<"h">>)
  \/ \E k \in 0..MaxTweets : SearchSelect(k)
  \/ SearchQuit
  \/ StatsBack
  \/ Retweet(Today)
  \/ \E raw \in ListInputs \cup {<< >>} : CreateFavoriteList(raw)
  \/ ListFavoriteLists
  \/ AddToFavoriteList
  \/ \E raw \in ListInputs \cup {<< >>} : FavCreate(raw)
  \/ \E k \in 0..(MaxLists + 1) : FavSelect(k)
  \/ FavCancel

SpecStats == InitStats /\ [][NextStats]_vars

RetweetNotices ==
  {"You have already retweeted this tweet.", "Tweet not found.",
   "Retweet posted successfully!", DbError}

\* the step taken is retweet
RetweetStep == pc = "tweet_stats" /\ pc' = "tweet_stats" /\ msg' \in RetweetNotices

RetweetsBy(tid, u) ==
  Cardinality({i \in 1..Len(retweets) : retweets[i].tid = tid /\ retweets[i].retweeter_id = u})

\* C6: a retweet call on an existing tweet the user has not retweeted appends
\* exactly one row for (tid, retweeter); a call on a tweet the user has
\* retweeted inserts nothing and reports "already retweeted"; the count of
\* retweets of a tweet by a user never exceeds 1.
C6_RetweetOnce ==
  [][ /\ \A t \in 1..MaxTweets, u \in 1..MaxUsers : RetweetsBy(t, u)' <= 1
      /\ RetweetStep =>
           IF RetweetsBy(cur, SqlInt(usr)) > 0
           THEN /\ UNCHANGED tables
                /\ msg' = "You have already retweeted this tweet."
           ELSE (\E i \in 1..Len(tweets) : tweets[i].tid = cur) =>
                  /\ Len(retweets') = Len(retweets) + 1
                  /\ SubSeq(retweets', 1, Len(retweets)) = retweets
                  /\ retweets'[Len(retweets')].tid = cur
                  /\ retweets'[Len(retweets')].retweeter_id = SqlInt(usr)
                  /\ RetweetsBy(cur, SqlInt(usr))' = 1
                  /\ msg' = "Retweet posted successfully!"
                  /\ UNCHANGED <<users, follows, tweets, mentions, lists, include>>
    ]_vars

\* User 1 retweeted a tweet in this run and a repeat was refused.
C6_Witness ==
  /\ msg = "You have already retweeted this tweet."
  /\ SqlInt(usr) = 1
  /\ RetweetsBy(cur, 1) = 1

\* the step taken is the list selection of add_to_favorite_list
FavStep == pc = "fav_select" /\ pc' = "tweet_stats" /\ ~(msg' = "" /\ UNCHANGED tables)

Included(o, l, t) == \E i \in 1..Len(include) : include[i] = [owner_id |-> o, lname |-> l, tid |-> t]

\* C7: no (owner, list name, tid) triple is stored twice in include; an add
\* appends at most the one triple of the session's user, one of their lists and
\* the viewed tweet, and only when it is absent; an add that finds the tweet in
\* the list, and any add when every list of the user holds the tweet, changes
\* no table.
C7_IncludeOnce ==
  [][ /\ \A i, j \in 1..Len(include') : i # j => include'[i] # include'[j]
      /\ (pc = "fav_select" /\ pc' = "tweet_stats") =>
           \/ UNCHANGED tables
           \/ \E l \in OwnLists(SqlInt(usr)) :
                /\ ~Included(SqlInt(usr), l, cur)
                /\ include' = Append(include, [owner_id |-> SqlInt(usr), lname |-> l,
                                               tid |-> cur])
                /\ UNCHANGED <<users, follows, tweets, retweets, mentions, lists>>
      /\ (FavStep /\ msg' = "This tweet is already in the selected list.") =>
           /\ UNCHANGED tables
           /\ \E l \in OwnLists(SqlInt(usr)) : Included(SqlInt(usr), l, cur)
      /\ (FavStep /\ \A l \in OwnLists(SqlInt(usr)) : Included(SqlInt(usr), l, cur)) =>
           UNCHANGED tables
    ]_vars

\* A tweet was added to a list in this run and a second add to that list was
\* refused.
C7_Witness ==
  /\ msg = "This tweet is already in the selected list."
  /\ \E l \in OwnLists(SqlInt(usr)) : Included(SqlInt(usr), l, cur)
  /\ pc = "tweet_stats"

----------------------------------------------------------------------------
(* Searches over stored tweets and hashtag mentions *)

SearchTexts == {<<"h", "i">>, <<"G", "o">>}

SearchTerms == {<< >>, <<"g", "o">>, <<"H", "i">>}

SearchInputs ==
  {<<"h">>, <<"G", "O">>, <<" ", "g", "o", ",", " ", "x">>, <<",", " ">>, <<"x">>,
   <<"_">>, <<"%">>}

InitSearchCommon ==
  /\ users = <<User(1), User(2), User(3)>>
  /\ follows = << >>
  /\ retweets = << >>
  /\ lists = << >>
  /\ include = << >>
  /\ pc = "dashboard"
  /\ usr = <<"1">>
  /\ stack = << >>
  /\ offset = 0
  /\ shown = << >>
  /\ more = FALSE
  /\ results = << >>
  /\ sidx = 0
  /\ cur = NULL
  /\ target = NULL
  /\ inp = << >>
  /\ msg = ""
  /\ sess = NoSessions
  /\ report = << >>
  /\ sql = FALSE

\* Few tweets, every combination of text, hashtag term, date and time.
InitSearchA ==
  /\ InitSearchCommon
  /\ \E n \in 0..MaxTweetsA :
       \E a \in [1..n -> [x : SearchTexts, h : SearchTerms, d : Dates, t : Times]] :
         /\ tweets = [i \in 1..n |-> [tid |-> i, writer_id |-> 2, text |-> a[i].x,
                                      tdate |-> a[i].d, ttime |-> a[i].t,
                                      replyto_tid |-> NULL]]
         /\ mentions = SelectSeq([i \in 1..n |-> [tid |-> i, term |-> a[i].h]],
                                 LAMBDA m : m.term # << >>)

\* More than a page of tweets with one text.
InitSearchB ==
  /\ InitSearchCommon
  /\ \E n \in (PageSize + 1)..MaxSearchTweets :
       \E a \in [1..n -> Times] :
         /\ tweets = [i \in 1..n |-> [tid |-> i, writer_id |-> 2, text |-> <<"h", "i">>,
                                      tdate |-> 1, ttime |-> a[i], replyto_tid |-> NULL]]
         /\ mentions = << >>

InitSearch == InitSearchA \/ InitSearchB

NextSearch ==
  \/ \E raw \in SearchInputs : SearchTweets(raw)
  \/ SearchMore
  \/ SearchStop
  \/ \E k \in 0..(MaxSearchTweets + 1) : SearchSelect(k)
  \/ SearchQuit
  \/ StatsBack

SpecSearch == InitSearch /\ [][NextSearch]_vars

\* k occurs in t as a run of consecutive characters
Substring(k, t) == \E i \in 0..(Len(t) - Len(k)) : SubSeq(t, i + 1, i + Len(k)) = k

\* search_tweets has run its query and not yet left for another screen
SearchDone ==
  \/ pc \in {"search_more", "search_select"}
  \/ msg = "No tweets found matching the keywords."

\* C8: the materialized search result holds a tweet iff some keyword is a
\* case-insensitive substring of its text or equals, case-insensitively, one of
\* its hashtag terms; and no tweet is in the result twice.
C8_SearchUnion ==
  SearchDone =>
    LET keywords == Keywords(inp)
    IN /\ \A i \in 1..Len(tweets) :
            (\E r \in 1..Len(results) : results[r].tid = tweets[i].tid)
              <=> \E k \in 1..Len(keywords) :
                    \/ Substring(LowerStr(keywords[k]), LowerStr(tweets[i].text))
                    \/ \E m \in 1..Len(mentions) :
                         /\ mentions[m].tid = tweets[i].tid
                         /\ LowerStr(mentions[m].term) = LowerStr(keywords[k])
       /\ \A r, q \in 1..Len(results) : r # q => results[r].tid # results[q].tid

----------------------------------------------------------------------------
(* Sessions that register, compose tweets and reply *)

ComposeInputs ==
  {<< >>,
   <<" ", "h", "i", " ">>,
   <<"#", "G", "o", " ", "#", "g", "o">>,
   <<"#", "g", "o", " ", "#", "h", "i">>,
   <<"#", "h", "#", "H">>,
   <<"#", " ", "h", "#", "H", "i">>}

InitCompose ==
  /\ users \in {<< >>, <<User(1), User(3)>>}
  /\ follows = << >>
  /\ tweets \in {<< >>, <<[tid |-> 3, writer_id |-> 1, text |-> <<"h">>, tdate |-> 1,
                          ttime |-> 1, replyto_tid |-> NULL]>>}
  /\ retweets = << >>
  /\ mentions = << >>
  /\ lists = << >>
  /\ include = << >>
  /\ pc = "login_screen"
  /\ usr = NoUser
  /\ stack = << >>
  /\ offset = 0
  /\ shown = << >>
  /\ more = FALSE
  /\ results = << >>
  /\ sidx = 0
  /\ cur = NULL
  /\ target = NULL
  /\ inp = << >>
  /\ msg = ""
  /\ sess = NoSessions
  /\ report = << >>
  /\ sql = FALSE

NextCompose ==
  \/ \E e \in {<<"e", 1>>, <<"e", 9>>} : SignUp(e, 9)
  \/ \E s \in {<<"1">>, <<"0", "1">>, <<"4">>} : Login(s, "pw")
  \/ FeedShow
  \/ FeedBack
  \/ Logout
  \/ \E raw \in ComposeInputs : ComposeTweet(raw, Today, 1)
  \/ SearchTweets(<<"h">>)
  \/ \E k \in 0..MaxTweets : SearchSelect(k)
  \/ SearchQuit
  \/ \E raw \in {<< >>, <<"h", "i">>} : ComposeReply(raw, Today, 2)
  \/ StatsBack

SpecCompose == InitCompose /\ [][NextCompose]_vars

ComposeNotices ==
  {"Tweet cannot be empty.", "Error: The following hashtags are duplicated",
   "Tweet posted successfully!", DbError}

\* the step taken is compose_tweet
ComposeStep == pc = "dashboard" /\ msg' \in ComposeNotices

\* the positions of s where a hashtag starts: a '#' with a word character next
HashAt(s) == {i \in 1..(Len(s) - 1) : s[i] = "#" /\ s[i + 1] \in WordChars}

\* the term of the hashtag at i: the whole run of word characters after the
\* '#', case-folded
TermAt(s, i) ==
  LET j == CHOOSE q \in (i + 1)..Len(s) :
             /\ \A k \in (i + 1)..q : s[k] \in WordChars
             /\ q = Len(s) \/ s[q + 1] \notin WordChars
  IN LowerStr(SubSeq(s, i + 1, j))

TermRepeats(s) == \E i, j \in HashAt(s) : i # j /\ TermAt(s, i) = TermAt(s, j)

\* C9: a compose_tweet whose text repeats a hashtag term case-insensitively
\* inserts no tweets row and no hashtag_mentions row; one whose text is not
\* empty and whose terms are distinct appends one tweets row with that text and
\* exactly one hashtag_mentions row per term, lowercased and without the '#'.
C9_ComposeHashtags ==
  [][ ComposeStep =>
        LET text == Strip(inp')
        IN /\ TermRepeats(text) => UNCHANGED tables
           /\ (text # << >> /\ ~TermRepeats(text)) =>
                /\ Len(tweets') = Len(tweets) + 1
                /\ SubSeq(tweets', 1, Len(tweets)) = tweets
                /\ tweets'[Len(tweets')].text = text
                /\ Len(mentions') = Len(mentions) + Cardinality(HashAt(text))
                /\ SubSeq(mentions', 1, Len(mentions)) = mentions
                /\ {mentions'[m] : m \in (Len(mentions) + 1)..Len(mentions')}
                     = {[tid |-> tweets'[Len(tweets')].tid, term |-> TermAt(text, i)] :
                          i \in HashAt(text)}
                /\ UNCHANGED <<users, follows, retweets, lists, include>>
    ]_vars

\* '#go #hi' was posted with its two mention rows, and then '#Go #go' was
\* rejected.
C9_Witness ==
  /\ msg = "Error: The following hashtags are duplicated"
  /\ inp = <<"#", "G", "o", " ", "#", "g", "o">>
  /\ \E i \in 1..Len(tweets) :
       /\ tweets[i].text = <<"#", "g", "o", " ", "#", "h", "i">>
       /\ {mentions[m].term : m \in {q \in 1..Len(mentions) : mentions[q].tid = tweets[i].tid}}
            = {<<"g", "o">>, <<"h", "i">>}
       /\ Cardinality({q \in 1..Len(mentions) : mentions[q].tid = tweets[i].tid}) = 2

MaxId(rows, id(_)) == SqlMax({id(rows[i]) : i \in 1..Len(rows)})

UsrOf(r) == r.usr

TidOf(r) == r.tid

----------------------------------------------------------------------------
(* Further terminal sessions on the same database file                      *)
(*                                                                          *)
(* Every run of the program opens its own connection per operation.  A      *)
(* statement is one step.  The tables hold what is committed: a row a       *)
(* session has inserted and not yet committed is in its pend, unseen by the *)
(* other sessions.  A session that has inserted holds the write lock of the *)
(* file until it commits or rolls back, and another session's INSERT waits  *)
(* for it (no input is read while the lock is held, so the wait ends before *)
(* the connection's timeout).                                               *)

NoPending == [users |-> << >>, tweets |-> << >>, mentions |-> << >>]

\* op: the function running; pc: its next statement; usr: the session's user;
\* text, arg: what was typed or passed; val: the value the last query returned;
\* todo: the hashtags still to insert; pend: uncommitted rows; out: the notice.
Session(op, u, text, arg) ==
  [op |-> op, pc |-> "start", usr |-> u, text |-> text, arg |-> arg,
   val |-> NULL, todo |-> << >>, pend |-> NoPending, out |-> ""]

At(s, op, at) == s \in DOMAIN sess /\ sess[s].op = op /\ sess[s].pc = at

\* No other connection holds the write lock.
CanWrite(s) == \A o \in DOMAIN sess \ {s} : sess[o].pend = NoPending

MainIdle ==
  UNCHANGED <<pc, usr, stack, feedvars, searchvars, target, inp, msg, report, sql>>

\* compose_tweet up to get_new_tid(cursor): the text is validated and
\* SELECT MAX(tid) FROM tweets is read.
ComposeGetNewTid(s) ==
  /\ At(s, "compose_tweet", "start")
  /\ LET tweet_text == Strip(sess[s].text)
         hashtags == Hashtags(tweet_text)
     IN IF tweet_text = << >>
        THEN sess' = [sess EXCEPT ![s].pc = "done", ![s].out = "Tweet cannot be empty."]
        ELSE IF HasDuplicate(hashtags)
        THEN sess' = [sess EXCEPT ![s].pc = "done",
                                  ![s].out = "Error: The following hashtags are duplicated"]
        ELSE \E order \in Orders(Range(hashtags)) :
               sess' = [sess EXCEPT ![s].pc = "insert", ![s].val = NewTid,
                                    ![s].text = tweet_text, ![s].todo = order]
  /\ UNCHANGED tables
  /\ MainIdle

\* INSERT INTO tweets (tid, ...) VALUES (tid, ...): the row is pending, or the
\* primary key rejects it and the connection is left with nothing to commit.
ComposeInsertTweet(s, d, t) ==
  /\ At(s, "compose_tweet", "insert")
  /\ CanWrite(s)
  /\ IF TweetsKeyFree(sess[s].val)
     THEN sess' = [sess EXCEPT ![s].pc = "mentions",
                     ![s].pend.tweets = <<[tid |-> sess[s].val,
                                           writer_id |-> SqlInt(sess[s].usr),
                                           text |-> sess[s].text, tdate |-> d, ttime |-> t,
                                           replyto_tid |-> NULL]>>]
     ELSE sess' = [sess EXCEPT ![s].pc = "done", ![s].out = DbError]
  /\ UNCHANGED tables
  /\ MainIdle

ComposeInsertMention_KeepHash(s) ==
  /\ At(s, "compose_tweet", "mentions")
  /\ sess[s].todo # << >>
  /\ sess' = [sess EXCEPT ![s].todo = Tail(sess[s].todo),
                ![s].pend.mentions =
                   Append(sess[s].pend.mentions,
                          [tid |-> sess[s].val, term |-> Head(sess[s].todo)])]
  /\ UNCHANGED tables
  /\ MainIdle

\* One round of the loop over set(hashtags): INSERT INTO hashtag_mentions.
ComposeInsertMention(s) ==
  /\ At(s, "compose_tweet", "mentions")
  /\ sess[s].todo # << >>
  /\ sess' = [sess EXCEPT ![s].todo = Tail(sess[s].todo),
                ![s].pend.mentions =
                   Append(sess[s].pend.mentions,
                          [tid |-> sess[s].val, term |-> Tail(Head(sess[s].todo))])]
  /\ UNCHANGED tables
  /\ MainIdle

\* conn.commit() after the loop.
ComposeCommit(s) ==
  /\ At(s, "compose_tweet", "mentions")
  /\ sess[s].todo = << >>
  /\ tweets' = tweets \o sess[s].pend.tweets
  /\ mentions' = mentions \o sess[s].pend.mentions
  /\ sess' = [sess EXCEPT ![s].pc = "done", ![s].pend = NoPending,
                          ![s].out = "Tweet posted successfully!"]
  /\ UNCHANGED <<users, follows, retweets, lists, include>>
  /\ MainIdle

\* sign_up after its input loops: SELECT MAX(usr) FROM users.
SignUpMax(s) ==
  /\ At(s, "sign_up", "start")
  /\ sess' = [sess EXCEPT ![s].pc = "insert", ![s].val = NewUsr]
  /\ UNCHANGED tables
  /\ MainIdle

\* INSERT INTO users and the print that follows it; sqlite3.IntegrityError
\* leaves the with block, which rolls back.
SignUpInsert(s) ==
  /\ At(s, "sign_up", "insert")
  /\ CanWrite(s)
  /\ LET row == [usr |-> sess[s].val, name |-> <<"x">>, email |-> sess[s].text,
                 phone |-> sess[s].arg, pwd |-> "pw"]
     IN IF UsersKeyFree(row)
        THEN sess' = [sess EXCEPT ![s].pc = "commit", ![s].pend.users = <<row>>,
                                  ![s].out = "Registration successful!"]
        ELSE sess' = [sess EXCEPT ![s].pc = "done",
                                  ![s].out = "Error: Email or phone already exists!"]
  /\ UNCHANGED tables
  /\ MainIdle

\* The with block of sign_up ends without an exception: commit.
SignUpCommit(s) ==
  /\ At(s, "sign_up", "commit")
  /\ users' = users \o sess[s].pend.users
  /\ sess' = [sess EXCEPT ![s].pc = "done", ![s].pend = NoPending]
  /\ UNCHANGED <<follows, tweets, retweets, mentions, lists, include>>
  /\ MainIdle

\* retweet: SELECT COUNT(*) FROM retweets WHERE tid = ? AND retweeter_id = ?
RetweetCheck(s) ==
  /\ At(s, "retweet", "start")
  /\ IF \E i \in 1..Len(retweets) :
          retweets[i].tid = sess[s].arg /\ retweets[i].retweeter_id = SqlInt(sess[s].usr)
     THEN sess' = [sess EXCEPT ![s].pc = "done",
                               ![s].out = "You have already retweeted this tweet."]
     ELSE sess' = [sess EXCEPT ![s].pc = "find"]
  /\ UNCHANGED tables
  /\ MainIdle

RetweetFind_Skip(s) ==
  /\ At(s, "retweet", "find")
  /\ LET found == {i \in 1..Len(tweets) : tweets[i].tid = sess[s].arg}
     IN IF found = {}
        THEN sess' = [sess EXCEPT ![s].pc = "insert", ![s].val = NULL]
        ELSE sess' = [sess EXCEPT ![s].pc = "insert",
                        ![s].val = tweets[CHOOSE i \in found : TRUE].writer_id]
  /\ UNCHANGED tables
  /\ MainIdle

\* retweet: SELECT writer_id FROM tweets WHERE tid = ?
RetweetFind(s) ==
  /\ At(s, "retweet", "find")
  /\ LET found == {i \in 1..Len(tweets) : tweets[i].tid = sess[s].arg}
     IN IF found = {}
        THEN sess' = [sess EXCEPT ![s].pc = "done", ![s].out = "Tweet not found."]
        ELSE sess' = [sess EXCEPT ![s].pc = "insert",
                        ![s].val = tweets[CHOOSE i \in found : TRUE].writer_id]
  /\ UNCHANGED tables
  /\ MainIdle

\* retweet: INSERT INTO retweets ... VALUES (?, ?, ?, 0, ?) and conn.commit().
\* No session reads or writes the row between the two statements.
RetweetInsert(s, d) ==
  /\ At(s, "retweet", "insert")
  /\ CanWrite(s)
  /\ LET row == [tid |-> sess[s].arg, retweeter_id |-> SqlInt(sess[s].usr),
                 writer_id |-> sess[s].val, spam |-> 0, rdate |-> d]
     IN IF RetweetsKeyFree(row)
        THEN /\ retweets' = Append(retweets, row)
             /\ sess' = [sess EXCEPT ![s].pc = "done",
                                     ![s].out = "Retweet posted successfully!"]
        ELSE /\ sess' = [sess EXCEPT ![s].pc = "done", ![s].out = DbError]
             /\ UNCHANGED retweets
  /\ UNCHANGED <<users, follows, tweets, mentions, lists, include>>
  /\ MainIdle

\* follow_user: the self check and SELECT 1 FROM follows WHERE flwer = ? AND flwee = ?
FollowCheck(s) ==
  /\ At(s, "follow_user", "start")
  /\ IF sess[s].usr = PyStr(sess[s].arg)
     THEN sess' = [sess EXCEPT ![s].pc = "done", ![s].out = "You cannot follow yourself."]
     ELSE IF \E i \in 1..Len(follows) :
               follows[i].flwer = SqlInt(sess[s].usr) /\ follows[i].flwee = sess[s].arg
     THEN sess' = [sess EXCEPT ![s].pc = "done",
                               ![s].out = "You are already following this user."]
     ELSE sess' = [sess EXCEPT ![s].pc = "insert"]
  /\ UNCHANGED tables
  /\ MainIdle

\* follow_user: INSERT INTO follows ... DATE('now') and conn.commit().
FollowInsert(s, d) ==
  /\ At(s, "follow_user", "insert")
  /\ CanWrite(s)
  /\ LET row == [flwer |-> SqlInt(sess[s].usr), flwee |-> sess[s].arg, start_date |-> d]
     IN IF FollowsKeyFree(row)
        THEN /\ follows' = Append(follows, row)
             /\ sess' = [sess EXCEPT ![s].pc = "done",
                                     ![s].out = "You are now following this user!"]
        ELSE /\ sess' = [sess EXCEPT ![s].pc = "done", ![s].out = DbError]
             /\ UNCHANGED follows
  /\ UNCHANGED <<users, tweets, retweets, mentions, lists, include>>
  /\ MainIdle

\* create_favorite_list: the name is read and stripped, then
\* SELECT 1 FROM lists WHERE owner_id = ? AND lname = ?
ListCheck(s) ==
  /\ At(s, "create_favorite_list", "start")
  /\ LET list_name == Strip(sess[s].text)
     IN IF list_name = << >>
        THEN sess' = [sess EXCEPT ![s].pc = "done", ![s].out = "List name cannot be empty."]
        ELSE IF list_name \in OwnLists(SqlInt(sess[s].usr))
        THEN sess' = [sess EXCEPT ![s].pc = "done",
                                  ![s].out = "A list with this name already exists."]
        ELSE sess' = [sess EXCEPT ![s].pc = "insert", ![s].text = list_name]
  /\ UNCHANGED tables
  /\ MainIdle

\* create_favorite_list: INSERT INTO lists and conn.commit().
ListInsert(s) ==
  /\ At(s, "create_favorite_list", "insert")
  /\ CanWrite(s)
  /\ LET row == [owner_id |-> SqlInt(sess[s].usr), lname |-> sess[s].text]
     IN IF ListsKeyFree(row)
        THEN /\ lists' = Append(lists, row)
             /\ sess' = [sess EXCEPT ![s].pc = "done",
                                     ![s].out = "Favorite list created successfully."]
        ELSE /\ sess' = [sess EXCEPT ![s].pc = "done", ![s].out = DbError]
             /\ UNCHANGED lists
  /\ UNCHANGED <<users, follows, tweets, retweets, mentions, include>>
  /\ MainIdle

\* add_to_favorite_list once the list text was chosen for the tweet arg:
\* SELECT 1 FROM include WHERE owner_id = ? AND lname = ? AND tid = ?
IncludeCheck(s) ==
  /\ At(s, "add_to_favorite_list", "start")
  /\ sess[s].text \in OwnLists(SqlInt(sess[s].usr))
  /\ IF \E i \in 1..Len(include) :
          include[i] = [owner_id |-> SqlInt(sess[s].usr), lname |-> sess[s].text,
                        tid |-> sess[s].arg]
     THEN sess' = [sess EXCEPT ![s].pc = "done",
                               ![s].out = "This tweet is already in the selected list."]
     ELSE sess' = [sess EXCEPT ![s].pc = "insert"]
  /\ UNCHANGED tables
  /\ MainIdle

\* add_to_favorite_list: INSERT INTO include and conn.commit().
IncludeInsert(s) ==
  /\ At(s, "add_to_favorite_list", "insert")
  /\ CanWrite(s)
  /\ LET row == [owner_id |-> SqlInt(sess[s].usr), lname |-> sess[s].text,
                 tid |-> sess[s].arg]
     IN IF IncludeKeyFree(row)
        THEN /\ include' = Append(include, row)
             /\ sess' = [sess EXCEPT ![s].pc = "done", ![s].out = "Tweet added"]
        ELSE /\ sess' = [sess EXCEPT ![s].pc = "done", ![s].out = DbError]
             /\ UNCHANGED include
  /\ UNCHANGED <<users, follows, tweets, retweets, mentions, lists>>
  /\ MainIdle

----------------------------------------------------------------------------
(* Two terminals running the same operation at the same time *)

RaceOps ==
  {"compose_tweet", "sign_up", "retweet", "follow_user", "create_favorite_list",
   "add_to_favorite_list"}

SameUser == {<<"1">>, <<"0", "1">>}

\* The sessions an operation can be started as on the store of InitRace.
Starts(op) ==
  IF op = "compose_tweet"
  THEN {Session(op, u, text, NULL) :
          u \in {<<"1">>, <<"2">>},
          text \in {<<"h", "i">>, <<"#", "g", "o">>, <<"#", "g", "o", " ", "#", "h", "i">>}}
  ELSE IF op = "sign_up"
  THEN {Session(op, NoUser, <<"e", p>>, p) : p \in {8, 9}}
  ELSE IF op = "retweet"
  THEN {Session(op, u, << >>, 3) : u \in SameUser}
  ELSE IF op = "follow_user"
  THEN {Session(op, u, << >>, 2) : u \in SameUser}
  ELSE IF op = "create_favorite_list"
  THEN {Session(op, u, text, NULL) : u \in SameUser, text \in {<<"b">>, <<"b", " ">>}}
  ELSE {Session(op, u, <<"a">>, 3) : u \in SameUser}

InitRace ==
  /\ users = <<User(1), User(2)>>
  /\ follows = << >>
  /\ tweets = <<[tid |-> 3, writer_id |-> 2, text |-> <<"h">>, tdate |-> 1, ttime |-> 1,
                 replyto_tid |-> NULL]>>
  /\ retweets = << >>
  /\ mentions = << >>
  /\ lists = <<[owner_id |-> 1, lname |-> <<"a">>]>>
  /\ include = << >>
  /\ pc = "login_screen"
  /\ usr = NoUser
  /\ stack = << >>
  /\ offset = 0
  /\ shown = << >>
  /\ more = FALSE
  /\ results = << >>
  /\ sidx = 0
  /\ cur = NULL
  /\ target = NULL
  /\ inp = << >>
  /\ msg = ""
  /\ report = << >>
  /\ sql = FALSE
  /\ \E op \in RaceOps : sess \in [1..2 -> Starts(op)]

NextRace ==
  \E s \in 1..2 :
    \/ ComposeGetNewTid(s)
    \/ ComposeInsertTweet(s, Today, 1)
    \/ ComposeInsertMention(s)
    \/ ComposeCommit(s)
    \/ SignUpMax(s)
    \/ SignUpInsert(s)
    \/ SignUpCommit(s)
    \/ RetweetCheck(s)
    \/ RetweetFind(s)
    \/ RetweetInsert(s, Today)
    \/ FollowCheck(s)
    \/ FollowInsert(s, Today)
    \/ ListCheck(s)
    \/ ListInsert(s)
    \/ IncludeCheck(s)
    \/ IncludeInsert(s)

SpecRace == InitRace /\ [][NextRace]_vars

BothDone(ops) == \A s \in 1..2 : sess[s].op \in ops /\ sess[s].pc = "done"

\* C11: when two sessions have run compose_tweet at the same time, or sign_up
\* at the same time with different emails and phones, under any interleaving of
\* their statements, both creations have succeeded and the two sessions got
\* different new ids.
C11_DistinctIds ==
  (/\ BothDone({"compose_tweet", "sign_up"})
   /\ sess[1].op = "sign_up" => sess[1].text # sess[2].text /\ sess[1].arg # sess[2].arg)
  => /\ \A s \in 1..2 : sess[s].out \in {"Tweet posted successfully!",
                                          "Registration successful!"}
     /\ sess[1].val # sess[2].val

NoticeOf(op) ==
  IF op = "retweet" THEN "You have already retweeted this tweet."
  ELSE IF op = "follow_user" THEN "You are already following this user."
  ELSE IF op = "create_favorite_list" THEN "A list with this name already exists."
  ELSE "This tweet is already in the selected list."

NoDuplicateRows(t) == \A i, j \in 1..Len(t) : t[i] = t[j] => i = j

\* C12: when two sessions have run the same check-then-insert (retweet, follow,
\* list creation, list membership) on the same natural key at the same time,
\* under any interleaving, the row is stored once, one session reports the
\* insertion and the other ends with the informational notice of the
\* operation, not with a storage failure.
C12_AtomicCheckInsert ==
  (/\ BothDone({"retweet", "follow_user", "create_favorite_list", "add_to_favorite_list"})
   /\ SqlInt(sess[1].usr) = SqlInt(sess[2].usr)
   /\ sess[1].text = sess[2].text)
  => /\ NoDuplicateRows(retweets) /\ NoDuplicateRows(follows)
     /\ NoDuplicateRows(lists) /\ NoDuplicateRows(include)
     /\ \E w \in 1..2 : /\ sess[w].out \notin {DbError, NoticeOf(sess[w].op)}
                        /\ sess[3 - w].out = NoticeOf(sess[3 - w].op)

----------------------------------------------------------------------------
(* Storage failures during a composition *)

ComposeFail_Commit(s) ==
  /\ At(s, "compose_tweet", "mentions")
  /\ tweets' = tweets \o sess[s].pend.tweets
  /\ mentions' = mentions \o sess[s].pend.mentions
  /\ sess' = [sess EXCEPT ![s].pc = "done", ![s].pend = NoPending, ![s].out = DbError]
  /\ UNCHANGED <<users, follows, retweets, lists, include>>
  /\ MainIdle

\* A statement after the INSERT INTO tweets (an INSERT INTO hashtag_mentions or
\* the commit) raises sqlite3.Error: the exception leaves the with block of the
\* connection, which rolls the transaction back, and the except branch prints.
ComposeFail(s) ==
  /\ At(s, "compose_tweet", "mentions")
  /\ sess' = [sess EXCEPT ![s].pc = "done", ![s].pend = NoPending, ![s].out = DbError]
  /\ UNCHANGED tables
  /\ MainIdle

InitFail ==
  /\ users = <<User(1), User(2)>>
  /\ follows = << >>
  /\ tweets \in {<< >>, <<[tid |-> 3, writer_id |-> 2, text |-> <<"h">>, tdate |-> 1,
                          ttime |-> 1, replyto_tid |-> NULL]>>}
  /\ retweets = << >>
  /\ mentions = << >>
  /\ lists = << >>
  /\ include = << >>
  /\ pc = "login_screen"
  /\ usr = NoUser
  /\ stack = << >>
  /\ offset = 0
  /\ shown = << >>
  /\ more = FALSE
  /\ results = << >>
  /\ sidx = 0
  /\ cur = NULL
  /\ target = NULL
  /\ inp = << >>
  /\ msg = ""
  /\ report = << >>
  /\ sql = FALSE
  /\ sess \in [1..2 -> Starts("compose_tweet")]

NextFail ==
  \E s \in 1..2 :
    \/ ComposeGetNewTid(s)
    \/ ComposeInsertTweet(s, Today, 1)
    \/ ComposeInsertMention(s)
    \/ ComposeCommit(s)
    \/ ComposeFail(s)

SpecFail == InitFail /\ [][NextFail]_vars

\* The hashtag_mentions rows of a stored tweet are those of its text.
Whole(tw, mn) ==
  \A i \in 1..Len(tw) :
    {mn[m].term : m \in {q \in 1..Len(mn) : mn[q].tid = tw[i].tid}}
      = {TermAt(tw[i].text, h) : h \in HashAt(tw[i].text)}

\* C13: a storage failure in compose_tweet after the tweets row was inserted
\* ends the composition with the failure notice, and neither the tweets row nor
\* any hashtag_mentions row of it is stored, then or later; every tweet that is
\* stored has all the hashtag_mentions rows of its text.
C13_NotHalfWritten ==
  [][ /\ \A s \in 1..2 :
           (sess[s].pend.tweets # << >> /\ sess'[s].pc = "done")
             => /\ sess'[s].pend = NoPending
                /\ \/ /\ sess'[s].out = "Tweet posted successfully!"
                      /\ tweets' = tweets \o sess[s].pend.tweets
                      /\ Len(mentions') = Len(mentions) + Cardinality(HashAt(sess[s].text))
                   \/ /\ sess'[s].out = DbError
                      /\ UNCHANGED tables
      /\ \A s \in 1..2 : (sess[s].pc = "done" /\ sess[s].out = DbError) => UNCHANGED sess[s]
      /\ Whole(tweets', mentions')
      /\ \A m \in 1..Len(mentions') : \E i \in 1..Len(tweets') : tweets'[i].tid = mentions'[m].tid
    ]_vars

\* The composition of '#go #hi' failed after its tweets row and one
\* hashtag_mentions row were inserted, and no tweet with its id is stored.
C13_Witness ==
  \E s \in 1..2 :
    /\ sess[s].op = "compose_tweet" /\ sess[s].pc = "done" /\ sess[s].out = DbError
    /\ sess[s].text = <<"#", "g", "o", " ", "#", "h", "i">>
    /\ Len(sess[s].todo) = 1
    /\ TweetsKeyFree(sess[s].val)
    /\ \A m \in 1..Len(mentions) : mentions[m].tid # sess[s].val

----------------------------------------------------------------------------
(* The whole program: every option of every menu *)

SeedTweet(i) ==
  [tid |-> i, writer_id |-> 2, text |-> <<"h">>, tdate |-> 1, ttime |-> 1,
   replyto_tid |-> NULL]

SeedRetweet(i) == [tid |-> i, retweeter_id |-> 2, writer_id |-> 2, spam |-> 0, rdate |-> 1]

SeedFollower(i) == [flwer |-> i + 1, flwee |-> 1, start_date |-> 1]

SeedFollowee(i) == [flwer |-> 1, flwee |-> i + 1, start_date |-> 1]

SeedList(i) == [owner_id |-> i + 1, lname |-> <<"a">>]

SeedInclude(i) == [owner_id |-> 2, lname |-> <<"a">>, tid |-> i]

\* A store in which every table has room for one more row, and the same store
\* with more than a page of tweets of a followed user.
InitAll ==
  /\ users = Seq1(MaxUsers - 1, User)
  /\ \/ /\ follows = Seq1(MaxFollows - 1, SeedFollower)
        /\ tweets = Seq1(MaxTweets - 1, SeedTweet)
     \/ /\ follows = Seq1(MaxFollows - 1, SeedFollowee)
        /\ tweets = Seq1(MaxTweets + PageSize, SeedTweet)
  /\ retweets = Seq1(MaxRetweets - 1, SeedRetweet)
  /\ mentions = << >>
  /\ lists = Seq1(MaxLists - 1, SeedList)
  /\ include = Seq1(MaxInclude - 1, SeedInclude)
  /\ pc = "login_screen"
  /\ usr = NoUser
  /\ stack = << >>
  /\ offset = 0
  /\ shown = << >>
  /\ more = FALSE
  /\ results = << >>
  /\ sidx = 0
  /\ cur = NULL
  /\ target = NULL
  /\ inp = << >>
  /\ msg = ""
  /\ sess = NoSessions
  /\ report = << >>
  /\ sql = FALSE

Next ==
  \/ Login(<<"1">>, "pw")
  \/ SignUp(<<"e", 9>>, 9)
  \/ Exit
  \/ FeedShow
  \/ FeedNext
  \/ FeedBack
  \/ FeedQuit
  \/ ViewFeed
  \/ Logout
  \/ \E raw \in {<< >>, <<" ">>, <<"#", "h">>} : ComposeTweet(raw, Today, 1)
  \/ \E raw \in {<< >>, <<" ", ",">>, <<"h">>} : SearchTweets(raw)
  \/ SearchMore
  \/ SearchStop
  \/ SearchSelect(1)
  \/ SearchQuit
  \/ StatsBack
  \/ \E raw \in {<< >>, <<" ">>, <<"h">>} : ComposeReply(raw, Today, 2)
  \/ Retweet(Today)
  \/ \E raw \in {<< >>, <<" ">>, <<"a">>} : CreateFavoriteList(raw)
  \/ ListFavoriteLists
  \/ AddToFavoriteList
  \/ FavCreate(<<"b">>)
  \/ FavSelect(1)
  \/ FavCancel
  \/ SearchUsers(<<"g">>)
  \/ ListFollowers
  \/ UsersSelect(1)
  \/ UsersQuit
  \/ FollowUser(Today)
  \/ UserBack

Spec == InitAll /\ [][Next]_vars

\* Every row of old is, unchanged, a row of new.
Kept(old, new) == Len(old) <= Len(new) /\ SubSeq(new, 1, Len(old)) = old

\* C14: stored content only grows: in every step of the program every row of
\* users, tweets, retweets, follows, lists, include and hashtag_mentions is kept
\* as it was, so a row present in one state is present and unchanged in every
\* later state.
C14_OnlyGrows ==
  [][ /\ Kept(users, users') /\ Kept(tweets, tweets') /\ Kept(retweets, retweets')
      /\ Kept(follows, follows') /\ Kept(lists, lists') /\ Kept(include, include')
      /\ Kept(mentions, mentions')
    ]_vars

\* Every table has grown by a row and the rows it started with are still
\* there.
C14_Witness ==
  /\ Len(users) = MaxUsers /\ Len(tweets) = MaxTweets /\ Len(retweets) = MaxRetweets
  /\ Len(follows) = MaxFollows /\ Len(lists) = MaxLists /\ Len(include) = MaxInclude
  /\ Len(mentions) = 1
  /\ users[1] = User(1) /\ tweets[1] = SeedTweet(1) /\ retweets[1] = SeedRetweet(1)
  /\ follows[1] = SeedFollower(1) /\ lists[1] = SeedList(1) /\ include[1] = SeedInclude(1)

----------------------------------------------------------------------------
(* End to end: A (user 1) at one terminal, B (user 2) composing at another *)

Hello == <<"h", "e", "l", "l", "o", " ", "#", "w", "o", "r", "l", "d">>

World == <<"w", "o", "r", "l", "d">>

\* B has posted n tweets on the date d at the time t; B's composition is stamped
\* (Today, 1).  A stored time can be later than the local clock of the
\* composer: compose_reply stamps with the storage's CURRENT_TIME.
InitE2E ==
  /\ users = <<User(1), User(2)>>
  /\ follows = << >>
  /\ \E n \in {0, PageSize - 1, PageSize} : \E d \in Dates, t \in Times :
       tweets = [i \in 1..n |-> [tid |-> i, writer_id |-> 2, text |-> <<"h", "i">>,
                                 tdate |-> d, ttime |-> t, replyto_tid |-> NULL]]
  /\ retweets = << >>
  /\ mentions = << >>
  /\ lists = << >>
  /\ include = << >>
  /\ pc = "login_screen"
  /\ usr = NoUser
  /\ stack = << >>
  /\ offset = 0
  /\ shown = << >>
  /\ more = FALSE
  /\ results = << >>
  /\ sidx = 0
  /\ cur = NULL
  /\ target = NULL
  /\ inp = << >>
  /\ msg = ""
  /\ sess = <<Session("compose_tweet", <<"2">>, Hello, NULL)>>
  /\ report = << >>
  /\ sql = FALSE

NextE2E ==
  \/ Login(<<"1">>, "pw")
  \/ FeedShow
  \/ FeedNext
  \/ FeedBack
  \/ ViewFeed
  \/ SearchUsers(<<"g">>)
  \/ UsersSelect(1)
  \/ UsersQuit
  \/ FollowUser(Today)
  \/ UserBack
  \/ SearchTweets(World)
  \/ SearchQuit
  \/ ComposeGetNewTid(1)
  \/ ComposeInsertTweet(1, Today, 1)
  \/ ComposeInsertMention(1)
  \/ ComposeCommit(1)

SpecE2E == InitE2E /\ [][NextE2E]_vars

AFollowsB == \E i \in 1..Len(follows) : follows[i].flwer = 1 /\ follows[i].flwee = 2

HelloRows == {i \in 1..Len(tweets) : tweets[i].text = Hello /\ tweets[i].writer_id = 2}

\* The entries of A's feed, other than the tweet of row i, that are not older
\* than it: tweets of followed users with the same or a later date and time, and
\* retweets by followed users with a later date.
NotOlder(i) ==
  Cardinality({j \in 1..Len(tweets) :
                 /\ j # i
                 /\ \E f \in 1..Len(follows) :
                      follows[f].flwer = 1 /\ follows[f].flwee = tweets[j].writer_id
                 /\ \/ tweets[j].tdate > tweets[i].tdate
                    \/ tweets[j].tdate = tweets[i].tdate /\ tweets[j].ttime >= tweets[i].ttime})
  + Cardinality({r \in 1..Len(retweets) :
                   /\ retweets[r].spam = 0
                   /\ \E f \in 1..Len(follows) :
                        follows[f].flwer = 1 /\ follows[f].flwee = retweets[r].retweeter_id
                   /\ \E j \in 1..Len(tweets) : tweets[j].tid = retweets[r].tid
                   /\ retweets[r].rdate > tweets[i].tdate})

\* A asks for page 0 of the feed while following B.
FeedPageZero ==
  /\ pc = "feed" /\ offset = 0 /\ shown = << >> /\ usr = <<"1">> /\ AFollowsB
  /\ pc' # "feed"

OnPage(i) == \E k \in 1..Len(shown') : shown'[k].type = "tweet" /\ shown'[k].tid = tweets[i].tid

Indexed(i) ==
  \E m \in 1..Len(mentions) : mentions[m].tid = tweets[i].tid /\ mentions[m].term = World

\* A searches the keyword 'world'.
SearchWorld ==
  /\ pc = "dashboard" /\ usr = <<"1">> /\ inp' = World
  /\ msg' \in {"=== Search Results ===", "No tweets found matching the keywords."}

Returned(i) == \E k \in 1..Len(results') : results'[k].tid = tweets[i].tid

----------------------------------------------------------------------------
(* Favourite lists: creation and report *)

\* A step of create_favorite_list: option '5' of the dashboard has printed.
CreateStep ==
  /\ pc = "dashboard"
  /\ msg' \in {"List name cannot be empty.", "A list with this name already exists.",
              "Favorite list created successfully.", DbError}

Owns(o, l) == \E i \in 1..Len(lists) : lists[i].owner_id = o /\ lists[i].lname = l

\* C16: create_favorite_list rejects an empty name and a name its user already
\* owns, changing no table; otherwise it appends exactly the one lists row
\* (user, name); no (owner, name) pair is stored twice, and a name owned by
\* another user is not a reason to reject.
C16_CreateList ==
  [][ /\ CreateStep =>
           LET name == Strip(inp')
               u == SqlInt(usr)
           IN /\ name = << >> =>
                   UNCHANGED tables /\ msg' = "List name cannot be empty."
              /\ (name # << >> /\ Owns(u, name)) =>
                   UNCHANGED tables /\ msg' = "A list with this name already exists."
              /\ (name # << >> /\ ~Owns(u, name)) =>
                   /\ lists' = Append(lists, [owner_id |-> u, lname |-> name])
                   /\ msg' = "Favorite list created successfully."
                   /\ UNCHANGED <<users, follows, tweets, retweets, mentions, include>>
      /\ \A i, j \in 1..Len(lists') :
           (lists'[i].owner_id = lists'[j].owner_id /\ lists'[i].lname = lists'[j].lname)
             => i = j
    ]_vars

\* User 1 created the list 'a' that user 2 also owns, and a second creation of
\* 'a' was rejected.
C16_Witness ==
  /\ msg = "A list with this name already exists."
  /\ inp = <<"a">>
  /\ lists = <<[owner_id |-> 2, lname |-> <<"a">>], [owner_id |-> 1, lname |-> <<"a">>]>>

\* A step of list_favorite_lists: option '6' of the dashboard has printed.
ReportStep ==
  /\ pc = "dashboard"
  /\ msg' \in {"=== Your Favorite Lists ===", "You have no favorite lists."}

Members(o, l) ==
  {include[i].tid : i \in {j \in 1..Len(include) :
                             include[j].owner_id = o /\ include[j].lname = l}}

\* C17: list_favorite_lists reports each list of its user once and no other
\* list; the tids reported for a list are exactly the tids of its include rows,
\* each once; a list without members is reported with 'No tweets in this
\* list.', and only such a list is.
C17_ListReport ==
  [][ ReportStep =>
        LET u == SqlInt(usr)
        IN /\ UNCHANGED tables
           /\ {report'[k].lname : k \in 1..Len(report')}
                = {lists[i].lname : i \in {j \in 1..Len(lists) : lists[j].owner_id = u}}
           /\ \A k, q \in 1..Len(report') : report'[k].lname = report'[q].lname => k = q
           /\ \A k \in 1..Len(report') :
                LET e == report'[k]
                IN /\ {e.tids[n] : n \in 1..Len(e.tids)} = Members(u, e.lname)
                   /\ Len(e.tids) = Cardinality(Members(u, e.lname))
                   /\ (e.display = "No tweets in this list.") <=> (Members(u, e.lname) = {})
           /\ (msg' = "You have no favorite lists.") <=> (report' = << >>)
    ]_vars

\* User 1 sees the list 'a' with the tweet added to it and the list 'b' with
\* the empty indicator.
C17_Witness ==
  /\ msg = "=== Your Favorite Lists ==="
  /\ pc = "dashboard"
  /\ Len(report) = 2
  /\ report[1].lname = <<"a">> /\ Len(report[1].tids) = 1 /\ report[1].display = "tids"
  /\ report[2] = [lname |-> <<"b">>, tids |-> << >>, display |-> "No tweets in this list."]

\* The line holds nothing but blanks (and, for a keyword line, commas).
Blank(s, fill) == \A i \in 1..Len(s) : s[i] \in fill

\* C18: a compose_tweet or create_favorite_list step on a line of blanks, a
\* search_tweets step on a line of blanks and commas and a compose_reply step on
\* a line of blanks are rejected: the step executes no statement on the
\* database, changes no table and stays at its menu, printing the notice of the
\* empty input (compose_reply prints nothing).
C18_EmptyInputs ==
  [][ /\ (/\ pc = "dashboard"
          /\ msg' \in {"Tweet cannot be empty.",
                       "Error: The following hashtags are duplicated",
                       "Tweet posted successfully!", "List name cannot be empty.",
                       "A list with this name already exists.",
                       "Favorite list created successfully.", DbError}
          /\ Blank(inp', {" "}))
           => /\ UNCHANGED tables /\ ~sql' /\ pc' = pc
              /\ msg' \in {"Tweet cannot be empty.", "List name cannot be empty."}
      /\ (/\ pc = "dashboard"
          /\ msg' \in {"No keywords provided.", "No tweets found matching the keywords.",
                       "=== Search Results ==="}
          /\ Blank(inp', {" ", ","}))
           => /\ UNCHANGED tables /\ ~sql' /\ pc' = pc
              /\ msg' = "No keywords provided."
              /\ results' = << >>
      /\ (/\ pc = "tweet_stats" /\ pc' = "tweet_stats"
          /\ msg' \in {"", "Reply posted successfully!", DbError}
          /\ Blank(inp', {" "}))
           => UNCHANGED tables /\ ~sql' /\ msg' = ""
    ]_vars

\* A search on the line ' ,' was rejected without a query.
C18_Witness ==
  /\ msg = "No keywords provided."
  /\ inp = <<" ", ",">>
  /\ ~sql
  /\ pc = "dashboard"

----------------------------------------------------------------------------
(* search_tweets: the selection *)

\* C19: a number typed at the selection prompt of search_tweets opens the
\* statistics of the tweet at that position of the whole result list, whatever
\* part of the list was displayed, when it is between 1 and the length of the
\* list; otherwise it opens no view, executes no statement and changes no
\* table.
C19_SelectByPosition ==
  [][ (pc = "search_select" /\ inp' # <<"q">>) =>
        LET k == SqlInt(inp')
        IN /\ UNCHANGED tables
           /\ (1 <= k /\ k <= Len(results)) =>
                pc' = "tweet_stats" /\ cur' = results[k].tid
           /\ ~(1 <= k /\ k <= Len(results)) =>
                pc' = "dashboard" /\ cur' = NULL /\ ~sql'
    ]_vars

\* After the first page of seven results the sixth entry was chosen.
C19_Witness ==
  /\ pc = "tweet_stats"
  /\ Len(results) = 7
  /\ sidx = 0
  /\ inp = <<"6">>
  /\ cur = results[6].tid

----------------------------------------------------------------------------
(* retweet, from the statistics view and as called with any tweet id *)

InitRetweet ==
  /\ users = <<User(1), User(2), User(3)>>
  /\ follows = << >>
  /\ tweets = <<[tid |-> 1, writer_id |-> 3, text |-> StatsText, tdate |-> 1, ttime |-> 1,
                 replyto_tid |-> NULL],
                [tid |-> 2, writer_id |-> 2, text |-> StatsText, tdate |-> 1, ttime |-> 2,
                 replyto_tid |-> NULL]>>
  /\ retweets \in {<< >>, <<[tid |-> 1, retweeter_id |-> 2, writer_id |-> 3, spam |-> 1,
                            rdate |-> 1]>>}
  /\ mentions = << >>
  /\ lists = << >>
  /\ include = << >>
  /\ pc = "login_screen"
  /\ usr = NoUser
  /\ stack = << >>
  /\ offset = 0
  /\ shown = << >>
  /\ more = FALSE
  /\ results = << >>
  /\ sidx = 0
  /\ cur = NULL
  /\ target = NULL
  /\ inp = << >>
  /\ msg = ""
  /\ report = << >>
  /\ sql = FALSE
  /\ sess \in [1..2 -> {Session("retweet", u, << >>, tid) :
                          u \in {<<"1">>, <<"2">>}, tid \in {1, 2, 9}}]

NextRetweet ==
  \/ Login(<<"1">>, "pw")
  \/ FeedShow
  \/ FeedBack
  \/ SearchTweets(<<"h">>)
  \/ \E k \in 1..2 : SearchSelect(k)
  \/ StatsBack
  \/ Retweet(Today)
  \/ \E s \in 1..2 : RetweetCheck(s)
  \/ \E s \in 1..2 : RetweetFind(s)
  \/ \E s \in 1..2 : RetweetInsert(s, Today)

SpecRetweet == InitRetweet /\ [][NextRetweet]_vars

TweetExists(tid) == \E i \in 1..Len(tweets) : tweets[i].tid = tid

\* C20: every retweets row names a tweet that is stored and carries the writer
\* of that tweet; every row a step inserts has the spam flag 0; a retweet called
\* with a tweet id that is not stored ends with 'not found' and changes no
\* table.
C20_RetweetRows ==
  [][ /\ \A r \in 1..Len(retweets') :
           \E i \in 1..Len(tweets') :
             /\ tweets'[i].tid = retweets'[r].tid
             /\ tweets'[i].writer_id = retweets'[r].writer_id
      /\ \A r \in (Len(retweets) + 1)..Len(retweets') : retweets'[r].spam = 0
      /\ \A s \in 1..2 :
           (/\ sess[s].op = "retweet" /\ ~TweetExists(sess[s].arg)
            /\ sess'[s] # sess[s])
             => /\ UNCHANGED tables
                /\ sess'[s].pc = "done" => sess'[s].out = "Tweet not found."
    ]_vars

\* One session has retweeted tweet 2 and the row carries writer 2 and spam 0;
\* the other was called with an id that is not stored and ended with 'not
\* found'.
C20_Witness ==
  /\ \E s \in 1..2 :
       /\ sess[s].arg = 9 /\ sess[s].pc = "done" /\ sess[s].out = "Tweet not found."
       /\ sess[3 - s].arg = 2 /\ sess[3 - s].out = "Retweet posted successfully!"
  /\ \E r \in 1..Len(retweets) :
       retweets[r].tid = 2 /\ retweets[r].writer_id = 2 /\ retweets[r].spam = 0
  /\ \A r \in 1..Len(retweets) : retweets[r].tid # 9

----------------------------------------------------------------------------
(* Favourite lists: memberships and the lists they refer to *)

\* add_to_favorite_list found no list of its user and is at the name prompt of
\* the create_favorite_list it called.
InlineCreate == pc = "fav_create"

\* C21: in every state each include row (owner, list name, tid) has a lists row
\* with the same owner and name; when add_to_favorite_list finds no list of its
\* user, neither the call up to the inline name prompt nor the inline creation
\* inserts a membership, and when the user owns no list after the prompt (the
\* name was declined or the creation failed) the call returns to the statistics
\* menu with no table changed.
C21_IncludeRefersToList ==
  [][ /\ \A i \in 1..Len(include) : Owns(include[i].owner_id, include[i].lname)
      /\ \A i \in 1..Len(include') : Owns(include[i].owner_id, include[i].lname)'
      /\ InlineCreate' =>
           /\ OwnLists(SqlInt(usr)) = {}
           /\ UNCHANGED tables
      /\ InlineCreate =>
           /\ include' = include
           /\ IF OwnLists(SqlInt(usr))' = {}
              THEN /\ UNCHANGED tables
                   /\ pc' = "tweet_stats"
                   /\ msg' \in {"List name cannot be empty.", DbError}
              ELSE /\ pc' = "fav_select"
                   /\ lists' = Append(lists, [owner_id |-> SqlInt(usr),
                                              lname |-> Strip(inp')])
    ]_vars

\* User 1, who owned no list, was asked for a name inside add_to_favorite_list,
\* typed 'b ', chose the list created and the viewed tweet is now a member of
\* the list 'b' of user 1, next to the list and the member of user 2.
C21_Witness ==
  /\ pc = "tweet_stats"
  /\ msg = "Tweet added"
  /\ inp = <<"b", " ">>
  /\ lists = <<[owner_id |-> 2, lname |-> <<"a">>], [owner_id |-> 1, lname |-> <<"b">>]>>
  /\ Included(1, <<"b">>, cur)
  /\ Included(2, <<"a">>, 1)

----------------------------------------------------------------------------
(* show_feed: the end states of the loop *)

\* The number of rows the feed query selects for the viewer id u.
EligibleCount(u) == Cardinality(EligibleTweets(u)) + Cardinality(EligibleRetweets(u))

\* A pass of the loop: the queries ran and the program stopped at a prompt.
FeedPass == pc = "feed" /\ AtFeedPrompt'

\* C22: over a fixed snapshot, a pass of show_feed reports 'No tweets to
\* display.' exactly when no row is eligible for the viewer; otherwise it prints
\* a non-empty page at an offset below the number of eligible rows and offers
\* 'n' exactly when rows remain at offset + 5; the offset is a multiple of 5 that
\* changes only by 'n' where it was offered, and then by exactly 5; 'No more
\* tweets available.' is never reached.
C22_FeedEndStates ==
  [][ LET n == EligibleCount(SqlInt(usr))
      IN /\ UNCHANGED tables
         /\ FeedPass =>
              /\ (pc' = "feed_empty") <=> (n = 0)
              /\ (msg' = "No tweets to display.") <=> (n = 0)
              /\ n > 0 =>
                   /\ pc' = "feed_prompt"
                   /\ offset < n
                   /\ Len(shown') = Len(shown) + Min(PageSize, n - offset)
                   /\ Len(shown') > Len(shown)
                   /\ more' <=> (n > offset + PageSize)
              /\ offset' = offset
         /\ offset' # offset =>
              /\ pc = "feed_prompt" /\ more /\ pc' = "feed"
              /\ offset' = offset + PageSize
              /\ offset' < n
         /\ (pc = "feed_prompt" /\ pc' = "feed") => more
         /\ offset' % PageSize = 0
         /\ pc' # "feed_nomore"
    ]_vars

\* The viewer has exactly ten eligible rows: the second page was printed full at
\* offset 5 and 'n' is not offered after it.
C22_Witness ==
  /\ pc = "feed_prompt"
  /\ offset = PageSize
  /\ ~more
  /\ Len(shown) = 2 * PageSize
  /\ EligibleCount(SqlInt(usr)) = 2 * PageSize

----------------------------------------------------------------------------
(* login_screen: Exit *)

\* Option '3' of the main menu was chosen in this step.
ExitChosen == pc = "login_screen" /\ msg' = "Exiting system. Goodbye!"

\* C23: the step that chooses Exit at the main menu ends the program, from
\* every navigation state, also after the feed was left with 'q': no menu is
\* presented after it and no user is the running user_menu's user; nothing
\* happens once the program has exited; and a user becomes the user of the
\* running dashboard only by the login step that accepts their credentials.
C23_ExitEndsSession ==
  [][ /\ ExitChosen =>
           /\ pc' = "exited"
           /\ usr' = NoUser
      /\ pc # "exited"
      /\ (usr' # NoUser /\ usr' # usr) =>
           /\ pc = "login_screen"
           /\ msg' = "Welcome"
    ]_vars

====
